---- MODULE Spec2Model ----
(***************************************************************************)
(* A model of the GEO SOFT extractor widget                                *)
(* (orange3biosci/widgets/geo_soft_extractor.py): the platform pass        *)
(* parse_platform_data, the sample pass parse_soft_file_directly, the      *)
(* characteristics normaliser parse_sample_characteristics, and the        *)
(* assembly in extract_data / create_orange_table.                         *)
(*                                                                         *)
(* Text is modelled as a sequence of tokens.  A token is one character     *)
(* ("=", ":", "/", " ", "TAB", a letter) or an indivisible word (a line    *)
(* tag such as "^SAMPLE", an identifier such as "G1", a number such as     *)
(* "1956").  Python's None and the empty string are both the empty         *)
(* sequence: the code only ever tests them for truthiness.                 *)
(*                                                                         *)
(* Both passes read the same file and neither reads the other's locals,    *)
(* so the model reveals the file one line at a time and advances the two   *)
(* loops over it together; at end of file their locals are those of        *)
(* running the platform pass to its end and then the sample pass.          *)
(***************************************************************************)
EXTENDS Integers, Sequences, FiniteSets, TLC

\* ------------------------------------------------------------------------
\* Bounds of the model (not program constants).

\* Lines read from the file in one extraction.
MaxLines == 6

\* Lines read from a file of sample sections only.
MaxTableLines == 10

\* Characteristic lines kept per sample identifier.
MaxChars == 2

\* ------------------------------------------------------------------------
\* Text.

Empty == << >>

\* str.strip() / float() whitespace.
IsSpace(c) == c \in {" ", "TAB"}

\* Characters with an upper-case form in the model, and str.lower().
LowerTok(c) ==
  CASE c = "B" -> "b"
    [] c = "A" -> "a"
    [] c = "X" -> "x"
    [] c = "Ti" -> "ti"
    [] c = "GENE" -> "gene"
    [] c = "ID" -> "id"
    [] c = "Characteristic" -> "characteristic"
    [] OTHER -> c

Lower(s) == [i \in 1..Len(s) |-> LowerTok(s[i])]

\* str.replace(' ', '_')
SpacesToUnderscores(s) == [i \in 1..Len(s) |-> IF s[i] = " " THEN "_" ELSE s[i]]

RECURSIVE LStrip(_)
LStrip(s) == IF s # Empty /\ IsSpace(Head(s)) THEN LStrip(Tail(s)) ELSE s

RECURSIVE RStrip(_)
RStrip(s) ==
  IF s # Empty /\ IsSpace(s[Len(s)]) THEN RStrip(SubSeq(s, 1, Len(s) - 1)) ELSE s

\* str.strip()
Strip(s) == RStrip(LStrip(s))

\* str.startswith(p)
StartsWith(s, p) == Len(s) >= Len(p) /\ SubSeq(s, 1, Len(p)) = p

\* Positions at which `sep` occurs in s.
Occurrences(s, sep) ==
  {i \in 1..(Len(s) - Len(sep) + 1) : SubSeq(s, i, i + Len(sep) - 1) = sep}

\* `sep in s` for a non-empty sep; `"" in s` is True.
Contains(s, sep) == sep = Empty \/ Occurrences(s, sep) # {}

Min(S) == CHOOSE x \in S : \A y \in S : x <= y

\* str.split(sep): the pieces between the leftmost non-overlapping
\* occurrences of sep.
RECURSIVE Split(_, _)
Split(s, sep) ==
  IF Occurrences(s, sep) = {}
    THEN << s >>
    ELSE LET i == Min(Occurrences(s, sep))
         IN  << SubSeq(s, 1, i - 1) >> \o Split(SubSeq(s, i + Len(sep), Len(s)), sep)

\* str.split(sep, 1)
SplitOnce(s, sep) ==
  IF Occurrences(s, sep) = {}
    THEN << s >>
    ELSE LET i == Min(Occurrences(s, sep))
         IN  << SubSeq(s, 1, i - 1), SubSeq(s, i + Len(sep), Len(s)) >>

\* Words made of decimal digits only, with their length in characters.
DigitTokLen(c) ==
  CASE c = "1956" -> 4
    [] c = "1" -> 1
    [] c = "2" -> 1
    [] c = "12" -> 2
    [] c = "7157" -> 4
    [] OTHER -> 0

\* str.isdigit(): non-empty and every character a digit.
IsDigit(s) == s # Empty /\ \A i \in 1..Len(s) : DigitTokLen(s[i]) > 0

RECURSIVE CharLen(_)
\* len(s) in characters, for a string of digit words.
CharLen(s) == IF s = Empty THEN 0 ELSE DigitTokLen(Head(s)) + CharLen(Tail(s))

\* The first character of a line decides `startswith('!')` / `startswith('#')`.
BangTags ==
  {"!Sample_title", "!Sample_characteristics_ch1", "!sample_table_begin",
   "!sample_table_end", "!platform_table_begin", "!platform_table_end",
   "!Sample_organism"}

StartsWithBang(s) == s # Empty /\ s[1] \in BangTags

StartsWithHash(s) == s # Empty /\ s[1] = "#"

\* Bytes that are not valid UTF-8.
InvalidBytes == {"0xFF"}

\* ------------------------------------------------------------------------
\* Numbers.  float(text) gives a number, nan, or raises ValueError.

Num(v) == [k |-> "num", v |-> v]

NaN == [k |-> "nan", v |-> 0]

ValueError == [k |-> "ValueError", v |-> 0]

\* float(): surrounding whitespace is ignored, "NaN" parses as nan.
Float(text) ==
  LET t == Strip(text)
  IN  IF Len(t) # 1 THEN ValueError
      ELSE CASE t[1] = "1" -> Num(1)
             [] t[1] = "2" -> Num(2)
             [] t[1] = "12" -> Num(12)
             [] t[1] = "1956" -> Num(1956)
             [] t[1] = "7157" -> Num(7157)
             [] t[1] = "NaN" -> NaN
             [] OTHER -> ValueError

\* ------------------------------------------------------------------------
\* Python dicts whose key order is observed: a sequence of <<key, value>>.

DictKeys(d) == [i \in 1..Len(d) |-> d[i][1]]

DictHas(d, k) == \E i \in 1..Len(d) : d[i][1] = k

DictGet(d, k) == d[CHOOSE i \in 1..Len(d) : d[i][1] = k][2]

\* An assignment that moves an existing key to the end.
DictSetLast(d, k, v) ==
  Append(SelectSeq(d, LAMBDA e : e[1] # k), << k, v >>)

\* d[k] = v: an existing key keeps its place, a new key goes last.
DictSet(d, k, v) ==
  IF DictHas(d, k)
    THEN [i \in 1..Len(d) |-> IF d[i][1] = k THEN << k, v >> ELSE d[i]]
    ELSE Append(d, << k, v >>)

\* A dict whose order is not observed is a function; this is d[k] = v.
MapSet(m, k, v) == [x \in DOMAIN m \cup {k} |-> IF x = k THEN v ELSE m[x]]

EmptyMap == [x \in {} |-> Empty]

\* ------------------------------------------------------------------------
\* Lines of a SOFT file.

TagSample == << "^SAMPLE" >>
TagTitle == << "!Sample_title" >>
TagCharacteristics == << "!Sample_characteristics_ch1" >>
TagSampleBegin == << "!sample_table_begin" >>
TagSampleEnd == << "!sample_table_end" >>
TagPlatform == << "^PLATFORM" >>
TagPlatformBegin == << "!platform_table_begin" >>
TagPlatformEnd == << "!platform_table_end" >>

\* `line.split('=')[1].strip() if '=' in line else None`: the text between
\* the first `=` and the second one (or the end of the line), stripped.
FieldAfterEq(line) ==
  IF Contains(line, << "=" >>) THEN Strip(Split(line, << "=" >>)[2]) ELSE Empty

\* ------------------------------------------------------------------------
\* parse_soft_file_directly: the locals and one turn of its loop.

\* Locals that start inside a sample section.
SampleLocalsStale ==
  [matching_samples |-> << >>,
   sample_characteristics |-> EmptyMap,
   current_sample |-> << "G0" >>,
   current_sample_title |-> Empty,
   in_sample_table |-> FALSE,
   sample_data |-> EmptyMap,
   raised |-> FALSE]

SampleLocalsInit ==
  [matching_samples |-> << >>,
   sample_characteristics |-> EmptyMap,
   current_sample |-> Empty,
   current_sample_title |-> Empty,
   in_sample_table |-> FALSE,
   sample_data |-> EmptyMap,
   raised |-> FALSE]

\* sample_data[current_sample] of the defaultdict: a missing key reads as an
\* empty dict (the empty entry the read creates is never told apart from a
\* missing one).
SampleDataOf(sp, id) ==
  IF id \in DOMAIN sp.sample_data THEN sp.sample_data[id] ELSE EmptyMap

\* `substring.lower() in title.lower()`
TitleMatches(substring, title) == Contains(Lower(title), Lower(substring))

\* A row that is written to the result as soon as it is read.
SampleRowCommitting(sp, line) ==
  IF line # Empty /\ ~StartsWithBang(line) /\ ~StartsWithHash(line)
    THEN LET parts == Split(line, << "TAB" >>)
             data == MapSet(SampleDataOf(sp, sp.current_sample),
                            parts[1], Float(parts[2]))
         IN  IF Len(parts) >= 2 /\ Float(parts[2]) # ValueError
               THEN [sp EXCEPT !.sample_data = MapSet(sp.sample_data, sp.current_sample, data),
                               !.matching_samples =
                                 DictSet(sp.matching_samples, sp.current_sample, data)]
               ELSE sp
    ELSE sp

\* The `# Parse table data` branch: a row of the current sample's table.
SampleRow(sp, line) ==
  IF line # Empty /\ ~StartsWithBang(line) /\ ~StartsWithHash(line)
    THEN LET parts == Split(line, << "TAB" >>)
         IN  IF Len(parts) >= 2 /\ Float(parts[2]) # ValueError
               THEN [sp EXCEPT !.sample_data =
                      MapSet(sp.sample_data, sp.current_sample,
                             MapSet(SampleDataOf(sp, sp.current_sample),
                                    parts[1], Float(parts[2])))]
               ELSE sp
    ELSE sp

\* A table end that commits whatever the title.
SampleTableEndAnyTitle(sp) ==
  IF sp.current_sample # Empty
    THEN [sp EXCEPT !.in_sample_table = FALSE,
                    !.matching_samples =
                      DictSet(sp.matching_samples, sp.current_sample,
                              SampleDataOf(sp, sp.current_sample))]
    ELSE [sp EXCEPT !.in_sample_table = FALSE]

\* A table end that commits only a sample with recorded rows.
SampleTableEndIfRows(sp) ==
  IF sp.current_sample # Empty /\ sp.current_sample_title # Empty
       /\ SampleDataOf(sp, sp.current_sample) # EmptyMap
    THEN [sp EXCEPT !.in_sample_table = FALSE,
                    !.matching_samples =
                      DictSet(sp.matching_samples, sp.current_sample,
                              SampleDataOf(sp, sp.current_sample))]
    ELSE [sp EXCEPT !.in_sample_table = FALSE]

\* The `# Check for table end` branch.
SampleTableEnd(sp) ==
  IF sp.current_sample # Empty /\ sp.current_sample_title # Empty
    THEN [sp EXCEPT !.in_sample_table = FALSE,
                    !.matching_samples =
                      DictSet(sp.matching_samples, sp.current_sample,
                              SampleDataOf(sp, sp.current_sample))]
    ELSE [sp EXCEPT !.in_sample_table = FALSE]

\* A title branch without the substring test.
SampleTitleAnySubstring(sp, line, substring) ==
  [sp EXCEPT !.current_sample_title = FieldAfterEq(line)]

\* A title branch in which a title without the substring undoes the match.
SampleTitleForgetting(sp, line, substring) ==
  LET title == FieldAfterEq(line)
  IN  IF TitleMatches(substring, title)
        THEN [sp EXCEPT !.current_sample_title = title]
        ELSE [sp EXCEPT !.current_sample_title = Empty]

\* The `# Get sample title/description` branch.
SampleTitle(sp, line, substring) ==
  LET title == FieldAfterEq(line)
  IN  IF TitleMatches(substring, title)
        THEN [sp EXCEPT !.current_sample_title = title]
        ELSE sp

\* A branch that puts the new line first.
SampleCharacteristicsFirst(sp, line) ==
  LET characteristics == FieldAfterEq(line)
      old == IF sp.current_sample \in DOMAIN sp.sample_characteristics
               THEN sp.sample_characteristics[sp.current_sample]
               ELSE << >>
  IN  [sp EXCEPT !.sample_characteristics =
        MapSet(sp.sample_characteristics, sp.current_sample,
               << characteristics >> \o old)]

\* The `# Get sample characteristics` branch.
SampleCharacteristics(sp, line) ==
  LET characteristics == FieldAfterEq(line)
      old == IF sp.current_sample \in DOMAIN sp.sample_characteristics
               THEN sp.sample_characteristics[sp.current_sample]
               ELSE << >>
  IN  [sp EXCEPT !.sample_characteristics =
        MapSet(sp.sample_characteristics, sp.current_sample,
               Append(old, characteristics))]

\* open(filename, 'r'): the locale's codec.  One that maps every byte to a
\* character (latin-1) reads an invalid UTF-8 byte as a letter.
DecodeLocale(raw) == [i \in 1..Len(raw) |-> IF raw[i] \in InvalidBytes THEN "y" ELSE raw[i]]

\* A line the UTF-8 codec cannot decode.
Undecodable(raw) == \E i \in 1..Len(raw) : raw[i] \in InvalidBytes

\* `except Exception`: the pass is over and returns two empty mappings.
SampleRaise(sp) == [sp EXCEPT !.raised = TRUE]

\* A pass that returns what it had stored, whether it raised or not.
SampleReturnAccumulated(sp) ==
  [matching_samples |-> sp.matching_samples,
   sample_characteristics |-> sp.sample_characteristics]

\* What parse_soft_file_directly returns.
SampleReturn(sp) ==
  IF sp.raised
    THEN [matching_samples |-> << >>, sample_characteristics |-> EmptyMap]
    ELSE [matching_samples |-> sp.matching_samples,
          sample_characteristics |-> sp.sample_characteristics]

\* A loop whose `^SAMPLE` leaves the table flag as it is.
SampleLineKeepingTable(sp, raw, substring) ==
  LET line == Strip(raw)
      cur == sp.current_sample # Empty
      matched == sp.current_sample_title # Empty
  IN  IF StartsWith(line, TagSample)
        THEN [sp EXCEPT !.current_sample = FieldAfterEq(line),
                        !.current_sample_title = Empty]
      ELSE IF cur /\ StartsWith(line, TagTitle)
        THEN SampleTitle(sp, line, substring)
      ELSE IF cur /\ matched /\ StartsWith(line, TagCharacteristics)
        THEN SampleCharacteristics(sp, line)
      ELSE IF cur /\ matched /\ StartsWith(line, TagSampleBegin)
        THEN [sp EXCEPT !.in_sample_table = TRUE]
      ELSE IF StartsWith(line, TagSampleEnd)
        THEN SampleTableEnd(sp)
      ELSE IF sp.in_sample_table /\ cur /\ matched
        THEN SampleRow(sp, line)
      ELSE sp

\* One turn of `for line in f` on a decoded line.
SampleLine(sp, raw, substring) ==
  LET line == Strip(raw)
      cur == sp.current_sample # Empty
      matched == sp.current_sample_title # Empty
  IN  IF StartsWith(line, TagSample)
        THEN [sp EXCEPT !.current_sample = FieldAfterEq(line),
                        !.current_sample_title = Empty,
                        !.in_sample_table = FALSE]
      ELSE IF cur /\ StartsWith(line, TagTitle)
        THEN SampleTitle(sp, line, substring)
      ELSE IF cur /\ matched /\ StartsWith(line, TagCharacteristics)
        THEN SampleCharacteristics(sp, line)
      ELSE IF cur /\ matched /\ StartsWith(line, TagSampleBegin)
        THEN [sp EXCEPT !.in_sample_table = TRUE]
      ELSE IF StartsWith(line, TagSampleEnd)
        THEN SampleTableEnd(sp)
      ELSE IF sp.in_sample_table /\ cur /\ matched
        THEN SampleRow(sp, line)
      ELSE sp

\* ------------------------------------------------------------------------
\* parse_platform_data: the locals and one turn of its loop.

\* Locals that start inside a platform table.
PlatformLocalsStale ==
  [platform_data |-> EmptyMap,
   current_platform |-> << "GPL0" >>,
   in_platform_table |-> TRUE,
   in_table_header |-> TRUE,
   header_indices |-> EmptyMap,
   raised |-> FALSE]

PlatformLocalsInit ==
  [platform_data |-> EmptyMap,
   current_platform |-> Empty,
   in_platform_table |-> FALSE,
   in_table_header |-> FALSE,
   header_indices |-> EmptyMap,
   raised |-> FALSE]

\* The columns searched for an Entrez id, in priority order.
possible_fields ==
  << << "gene" >>, << "geneid" >>, << "entrez_gene_id" >>, << "gene_id" >>,
     << "ncbi_gene_id" >>, << "gene_assignment" >> >>

\* The smallest length an all-digit candidate must exceed (`len(part) > 2`).
MinIdLen == 2

Max(S) == CHOOSE x \in S : \A y \in S : x >= y

\* `header_indices[header.strip().lower()] = idx` for every header, in
\* order: a name that occurs twice keeps its last (0-based) index.
HeaderIndices(old, headers) ==
  LET name(i) == Lower(Strip(headers[i]))
      names == {name(i) : i \in 1..Len(headers)}
  IN  [n \in DOMAIN old \cup names |->
        IF n \in names
          THEN Max({i \in 1..Len(headers) : name(i) = n}) - 1
          ELSE old[n]]

\* A gene_assignment branch that takes the first non-blank part.
RECURSIVE FirstAssignmentIdAnyPart(_)
FirstAssignmentIdAnyPart(assignment_parts) ==
  IF assignment_parts = << >> THEN Empty
  ELSE IF Strip(Head(assignment_parts)) # Empty THEN Strip(Head(assignment_parts))
  ELSE FirstAssignmentIdAnyPart(Tail(assignment_parts))

\* The gene_assignment branch: the first `//`-separated part that is all
\* digits and longer than two characters; None when there is none.
RECURSIVE FirstAssignmentId(_)
FirstAssignmentId(assignment_parts) ==
  IF assignment_parts = << >> THEN Empty
  ELSE LET part == Strip(Head(assignment_parts))
       IN  IF part # Empty /\ IsDigit(part) /\ CharLen(part) > MinIdLen
             THEN part
             ELSE FirstAssignmentId(Tail(assignment_parts))

\* The loop over the candidates of another field: an all-digit candidate
\* longer than two characters, or the digits after the colon of `label:digits`.
RECURSIVE FirstCandidateId(_)
FirstCandidateId(candidates) ==
  IF candidates = << >> THEN Empty
  ELSE LET candidate == Strip(Head(candidates))
           parts_colon == Split(candidate, << ":" >>)
       IN  IF IsDigit(candidate) /\ CharLen(candidate) > MinIdLen
             THEN candidate
           ELSE IF Contains(candidate, << ":" >>)
                   /\ Len(parts_colon) > 1 /\ IsDigit(Strip(parts_colon[2]))
             THEN Strip(parts_colon[2])
           ELSE FirstCandidateId(Tail(candidates))

\* A value taken whole, its delimiters left in.
CandidatesWhole(value) == << value >>

\* The candidates of a value: split on `///`, else on `//`, else the value.
Candidates(value) ==
  IF Contains(value, << "/", "/", "/" >>) THEN Split(value, << "/", "/", "/" >>)
  ELSE IF Contains(value, << "/", "/" >>) THEN Split(value, << "/", "/" >>)
  ELSE << value >>

\* The id one field yields for a row, None when it yields none.
FieldEntrezId(field_name, value) ==
  IF field_name = << "gene_assignment" >>
    THEN FirstAssignmentId(Split(value, << "/", "/" >>))
    ELSE FirstCandidateId(Candidates(value))

\* A search that stops at the first field that is a column of the header
\* with a non-blank cell, whether it yields an id or not.
RECURSIVE EntrezIdFirstPresent(_, _, _)
EntrezIdFirstPresent(fields, parts, header_indices) ==
  IF fields = << >> THEN Empty
  ELSE LET field_name == Head(fields)
           present == /\ field_name \in DOMAIN header_indices
                      /\ header_indices[field_name] < Len(parts)
                      /\ Strip(parts[header_indices[field_name] + 1]) # Empty
       IN  IF present
             THEN FieldEntrezId(field_name, Strip(parts[header_indices[field_name] + 1]))
             ELSE EntrezIdFirstPresent(Tail(fields), parts, header_indices)

\* `for field_name in possible_fields`: the first field that is a column of
\* the header, has a non-blank cell in this row and yields an id.
RECURSIVE EntrezId(_, _, _)
EntrezId(fields, parts, header_indices) ==
  IF fields = << >> THEN Empty
  ELSE LET field_name == Head(fields)
           present == /\ field_name \in DOMAIN header_indices
                      /\ header_indices[field_name] < Len(parts)
                      /\ Strip(parts[header_indices[field_name] + 1]) # Empty
           found == IF present
                      THEN FieldEntrezId(field_name,
                                         Strip(parts[header_indices[field_name] + 1]))
                      ELSE Empty
       IN  IF found # Empty THEN found
           ELSE EntrezId(Tail(fields), parts, header_indices)

\* The `# Parse platform table data` branch.
PlatformRow(pp, line) ==
  LET parts == Split(line, << "TAB" >>)
      probe_id == Strip(parts[1])
      entrez_id == EntrezId(possible_fields, parts, pp.header_indices)
  IN  IF entrez_id # Empty
        THEN [pp EXCEPT !.platform_data = MapSet(pp.platform_data, probe_id, entrez_id)]
        ELSE pp

\* open(..., encoding='utf-8', errors='ignore'): invalid bytes are dropped.
DecodeIgnore(raw) == SelectSeq(raw, LAMBDA c : c \notin InvalidBytes)

\* A loop whose `!platform_table_end` leaves the table open.
PlatformLineOpenEnded(pp, raw) ==
  LET line == Strip(DecodeIgnore(raw))
      cur == pp.current_platform # Empty
  IN  IF StartsWith(line, TagPlatform)
        THEN [pp EXCEPT !.current_platform = FieldAfterEq(line),
                        !.in_platform_table = FALSE,
                        !.in_table_header = FALSE,
                        !.header_indices = EmptyMap]
      ELSE IF cur /\ StartsWith(line, TagPlatformBegin)
        THEN [pp EXCEPT !.in_platform_table = TRUE, !.in_table_header = TRUE]
      ELSE IF StartsWith(line, TagPlatformEnd)
        THEN pp
      ELSE IF pp.in_platform_table /\ cur /\ pp.in_table_header
        THEN [pp EXCEPT !.in_table_header = FALSE,
                        !.header_indices =
                          HeaderIndices(pp.header_indices, Split(line, << "TAB" >>))]
      ELSE IF /\ pp.in_platform_table /\ cur /\ line # Empty
              /\ ~StartsWithBang(line) /\ ~StartsWithHash(line)
        THEN PlatformRow(pp, line)
      ELSE pp

\* One turn of `for line in f`.
PlatformLine(pp, raw) ==
  LET line == Strip(DecodeIgnore(raw))
      cur == pp.current_platform # Empty
  IN  IF StartsWith(line, TagPlatform)
        THEN [pp EXCEPT !.current_platform = FieldAfterEq(line),
                        !.in_platform_table = FALSE,
                        !.in_table_header = FALSE,
                        !.header_indices = EmptyMap]
      ELSE IF cur /\ StartsWith(line, TagPlatformBegin)
        THEN [pp EXCEPT !.in_platform_table = TRUE, !.in_table_header = TRUE]
      ELSE IF StartsWith(line, TagPlatformEnd)
        THEN [pp EXCEPT !.in_platform_table = FALSE]
      ELSE IF pp.in_platform_table /\ cur /\ pp.in_table_header
        THEN [pp EXCEPT !.in_table_header = FALSE,
                        !.header_indices =
                          HeaderIndices(pp.header_indices, Split(line, << "TAB" >>))]
      ELSE IF /\ pp.in_platform_table /\ cur /\ line # Empty
              /\ ~StartsWithBang(line) /\ ~StartsWithHash(line)
        THEN PlatformRow(pp, line)
      ELSE pp

\* `except Exception` of the platform pass: the loop is over.
PlatformRaise(pp) == [pp EXCEPT !.raised = TRUE]

\* A loop that goes on reading after the exception.
PlatformStepResuming(pp, raw) == PlatformLine(pp, raw)

\* The loop reads a line unless an exception has ended it.
PlatformStep(pp, raw) == IF pp.raised THEN pp ELSE PlatformLine(pp, raw)

\* A pass that returns nothing after an exception.
PlatformReturnEmptyOnError(pp) == IF pp.raised THEN EmptyMap ELSE pp.platform_data

\* `return platform_data`, after the loop or after the `except` block.
PlatformReturn(pp) == pp.platform_data

\* ------------------------------------------------------------------------
\* parse_sample_characteristics.

\* str(n) for the lengths the model reaches.
NumTok(n) ==
  CASE n = 0 -> "0"
    [] n = 1 -> "1"
    [] n = 2 -> "2"
    [] n = 3 -> "3"
    [] OTHER -> "n"

\* The body of `for char_line in characteristics_list` on the accumulator
\* [parsed_chars, class_chars].
CharacteristicsStep(acc, char_line) ==
  IF Contains(char_line, << ":" >>)
    THEN LET parts == SplitOnce(char_line, << ":" >>)
             label == Lower(SpacesToUnderscores(Strip(parts[1])))
             value == Strip(parts[2])
         IN  [parsed_chars |-> MapSet(acc.parsed_chars, label, value),
              class_chars |-> acc.class_chars \o value
                              \o (IF Len(acc.class_chars) > 0 THEN << "|" >> ELSE << >>)]
    ELSE LET generic_label ==
               << "characteristic", "_", NumTok(Cardinality(DOMAIN acc.parsed_chars)) >>
         IN  [parsed_chars |-> MapSet(acc.parsed_chars, generic_label, Strip(char_line)),
              class_chars |-> acc.class_chars]

RECURSIVE CharacteristicsLoop(_, _)
CharacteristicsLoop(acc, characteristics_list) ==
  IF characteristics_list = << >> THEN acc
  ELSE CharacteristicsLoop(CharacteristicsStep(acc, Head(characteristics_list)),
                           Tail(characteristics_list))

parse_sample_characteristics(characteristics_list) ==
  LET acc == CharacteristicsLoop([parsed_chars |-> EmptyMap, class_chars |-> << >>],
                                 characteristics_list)
  IN  MapSet(acc.parsed_chars, << "class" >>, acc.class_chars)

\* ------------------------------------------------------------------------
\* extract_data after the two passes, and create_orange_table.

\* Code-point order of the characters that occur in probe identifiers.
TokRank(c) ==
  CASE c = " " -> 0
    [] c = "ID" -> 1
    [] c = "P1" -> 2
    [] c = "P2" -> 3
    [] OTHER -> 4

\* Python's `<` on strings.
RECURSIVE StrLess(_, _)
StrLess(a, b) ==
  IF b = Empty THEN FALSE
  ELSE IF a = Empty THEN TRUE
  ELSE IF Head(a) = Head(b) THEN StrLess(Tail(a), Tail(b))
  ELSE TokRank(Head(a)) < TokRank(Head(b))

\* sorted(list(S))
RECURSIVE Sorted(_)
Sorted(S) ==
  IF S = {} THEN << >>
  ELSE LET m == CHOOSE x \in S : \A y \in S \ {x} : StrLess(x, y)
       IN  << m >> \o Sorted(S \ {m})

\* `all_genes`: the keys of every sample's value map, sorted.
AllGenes(expression_data) ==
  Sorted(UNION {DOMAIN expression_data[i][2] : i \in 1..Len(expression_data)})

\* The largest exponent for which 2 ** v is a finite double.
MaxExponent == 1023

\* A power that is stored whatever its size.
Pow2Unchecked(value) == [k |-> "pow2", v |-> value.v]

\* `value = 2 ** value`, nan on OverflowError.
Pow2(value) ==
  IF value.k = "nan" THEN NaN
  ELSE IF value.v > MaxExponent THEN NaN
  ELSE [k |-> "pow2", v |-> value.v]

\* A cell of a matrix that starts filled with zeros.
CellZeroFilled(sample_data, gene_id, transform) ==
  IF gene_id \in DOMAIN sample_data
    THEN IF transform THEN Pow2(sample_data[gene_id]) ELSE sample_data[gene_id]
    ELSE Num(0)

\* One cell of X.
Cell(sample_data, gene_id, transform) ==
  IF gene_id \in DOMAIN sample_data
    THEN IF transform THEN Pow2(sample_data[gene_id]) ELSE sample_data[gene_id]
    ELSE NaN

\* Attributes parsed for every sample, from no lines if it has none.
AttributesOfAnyList(sample_name, sample_characteristics) ==
  IF sample_name \in DOMAIN sample_characteristics
    THEN parse_sample_characteristics(sample_characteristics[sample_name])
    ELSE parse_sample_characteristics(<< >>)

\* The attributes of a sample's variable.
Attributes(sample_name, sample_characteristics) ==
  IF sample_name \in DOMAIN sample_characteristics
    THEN parse_sample_characteristics(sample_characteristics[sample_name])
    ELSE EmptyMap

\* `self.platform_data.get(gene_id, "")`
EntrezOf(platform, gene_id) ==
  IF gene_id \in DOMAIN platform THEN platform[gene_id] ELSE Empty

create_orange_table(expression_data, all_genes, sample_characteristics, platform, transform) ==
  LET sample_names == DictKeys(expression_data)
  IN  [sample_names |-> sample_names,
       attributes |-> [j \in 1..Len(sample_names) |->
                        Attributes(sample_names[j], sample_characteristics)],
       genes |-> all_genes,
       X |-> [i \in 1..Len(all_genes) |->
               [j \in 1..Len(sample_names) |->
                 Cell(expression_data[j][2], all_genes[i], transform)]],
       entrez |-> [i \in 1..Len(all_genes) |-> EntrezOf(platform, all_genes[i])]]

\* What one call of extract_data sends on Outputs.data.
NothingSent == [k |-> "nothing", table |-> << >>]
SentNone == [k |-> "None", table |-> << >>]
SentTable(t) == [k |-> "table", table |-> t]

\* A tail without the `if not all_genes` return.
AssembleAnyGenes(expression_data, sample_characteristics, platform, transform) ==
  IF expression_data = << >> THEN SentNone
  ELSE SentTable(create_orange_table(expression_data, AllGenes(expression_data),
                                     sample_characteristics, platform, transform))

\* The tail of extract_data: from the parser's results to the output.
Assemble(expression_data, sample_characteristics, platform, transform) ==
  IF expression_data = << >> THEN SentNone
  ELSE IF AllGenes(expression_data) = << >> THEN SentNone
  ELSE SentTable(create_orange_table(expression_data, AllGenes(expression_data),
                                     sample_characteristics, platform, transform))

\* ------------------------------------------------------------------------
\* The inputs of the model.

\* "Basal", the default of the sample_substring setting.
DefaultSubstring == << "B", "a", "sal" >>

\* Values the user types into the substring field.
Substrings == {Empty, << " " >>, << "x" >>, DefaultSubstring}

\* Values of the file field; os.path.exists() holds of the second only.
MissingPath == << "missing.soft" >>
DataPath == << "data.soft" >>
Paths == {Empty, MissingPath, DataPath}

\* Two files whose lines are fixed.
FileA == << "a.soft" >>
FileB == << "b.soft" >>
FixedPaths == {FileA, FileB}

Exists(path) == path = DataPath \/ path \in FixedPaths

\* The lines a file is made of.
LineSample1 == << "^SAMPLE", " ", "=", " ", "G1" >>
LineSample2 == << "^SAMPLE", "=", "G2" >>
LineSampleNoId == << "^SAMPLE" >>
LineTitleBasal == << "!Sample_title", " ", "=", " ", "b", "a", "sal", " ", "control" >>
LineTitleX == << "!Sample_title", "=", "x" >>
LineTitleEq == << "!Sample_title", "=", "y", "=", "B", "a", "sal" >>
LineCharTissue ==
  << "!Sample_characteristics_ch1", " ", "=", " ", "Ti", " ", "ssue", ":", " ", "liver" >>
LineCharFree == << "!Sample_characteristics_ch1", "=", "free" >>
LineSampleBegin == << "!sample_table_begin" >>
LineSampleEnd == << "!sample_table_end" >>
LineRow1 == << "P1", "TAB", "1" >>
LineRow2 == << "P2", "TAB", "2", "TAB", "extra" >>
LineRowNaN == << "P2", "TAB", "NaN" >>
LineRowShort == << "P1", "TAB" >>
LineRowText == << "P2", "TAB", "abc" >>
LineRowBig == << "P2", "TAB", "1956" >>
LineRowPadded == << "P1", " ", "TAB", "1" >>
LineComment == << "#", "c" >>
LinePlatform == << "^PLATFORM", " ", "=", " ", "GPL1" >>
LinePlatformBegin == << "!platform_table_begin" >>
LinePlatformEnd == << "!platform_table_end" >>
LineHeader == << "ID", "TAB", "GENE" >>
LinePlatformRow == << "P1", "TAB", "1956", "/", "/", "/", "abc" >>
LinePlatformRowPadded == << "P1", " ", "TAB", "1956" >>

SampleLines ==
  {LineSample1, LineSample2, LineSampleNoId, LineTitleBasal, LineTitleX, LineTitleEq,
   LineCharTissue, LineCharFree, LineSampleBegin, LineSampleEnd,
   LineRow1, LineRow2, LineRowNaN, LineRowShort, LineRowText, LineComment}

PlatformLines ==
  {LinePlatform, LinePlatformBegin, LinePlatformEnd, LineHeader, LinePlatformRow}

Lines == SampleLines \cup PlatformLines

\* ------------------------------------------------------------------------
\* What the file says, read off its lines alone: the sections, their title
\* lines and their table ends.  The properties compare the parser's results
\* with this record.

\* The text after the first `=` of a line, whatever follows it.
TextAfterEq(line) ==
  IF Contains(line, << "=" >>)
    THEN Strip(SubSeq(line, Min(Occurrences(line, << "=" >>)) + 1, Len(line)))
    ELSE Empty

\* `needle` occurs in `text`, ignoring case.
OccursIgnoringCase(needle, text) == Contains(Lower(text), Lower(needle))

\* The columns of a table row.
Columns(line) == Split(line, << "TAB" >>)

\* A row float() accepts: two columns or more, the second one a number or NaN.
IsDataRow(line) ==
  /\ line # Empty
  /\ ~StartsWithBang(line) /\ ~StartsWithHash(line) /\ ~StartsWith(line, TagSample)
  /\ Len(Columns(line)) >= 2
  /\ Float(Columns(line)[2]) # ValueError

\* What the title lines say.  sec_id: the identifier of the section being
\* read; sec_hit: the substring occurs in the text after `=` of one of its
\* title lines; anyTitleHit: the same of some title line of the file;
\* titleHit: the identifiers of the sections with such a title line;
\* titleMiss: the identifiers of the sections with a title line of another
\* kind; okProbes: the first column of the data rows read in a section after
\* a title line with the substring; otherProbes: the first column of the
\* data rows read in a section before any such title line.  sec_field: the
\* substring occurs in the text between the first `=` and the next of one of
\* the section's title lines; charIds: the identifiers of the sections with a
\* characteristics line after such a title line.
ObsInit ==
  [sec_id |-> Empty, sec_hit |-> FALSE, anyTitleHit |-> FALSE, titleHit |-> {},
   titleMiss |-> {}, okProbes |-> {}, otherProbes |-> {},
   sec_field |-> FALSE, charIds |-> {}]

\* q with x added last unless q has it.
AppendNew(q, x) == IF \E i \in 1..Len(q) : q[i] = x THEN q ELSE Append(q, x)

Observe(o, raw, substring) ==
  LET line == Strip(raw)
  IN  IF StartsWith(line, TagSample)
        THEN [o EXCEPT !.sec_id = FieldAfterEq(line), !.sec_hit = FALSE,
                       !.sec_field = FALSE]
      ELSE IF StartsWith(line, TagTitle)
        THEN LET full == OccursIgnoringCase(substring, TextAfterEq(line))
                 field == OccursIgnoringCase(substring, FieldAfterEq(line))
             IN  [o EXCEPT !.anyTitleHit = @ \/ full,
                           !.sec_field = @ \/ (field /\ o.sec_id # Empty),
                           !.sec_hit = @ \/ (full /\ o.sec_id # Empty),
                           !.titleHit = IF full /\ o.sec_id # Empty
                                          THEN @ \cup {o.sec_id} ELSE @,
                           !.titleMiss = IF ~full /\ o.sec_id # Empty
                                           THEN @ \cup {o.sec_id} ELSE @]
      ELSE IF StartsWith(line, TagCharacteristics)
        THEN IF o.sec_id # Empty /\ o.sec_field
               THEN [o EXCEPT !.charIds = @ \cup {o.sec_id}]
               ELSE o
      ELSE IF o.sec_id # Empty /\ IsDataRow(line)
        THEN IF o.sec_hit
               THEN [o EXCEPT !.okProbes = @ \cup {Columns(line)[1]}]
               ELSE [o EXCEPT !.otherProbes = @ \cup {Columns(line)[1]}]
      ELSE o

\* The sections of the file.  sec is the section being read: titles counts
\* its `!Sample_title` lines (2 for two or more); full / field: the substring
\* occurs in the first title line's text after `=` / in that text up to its
\* next `=`; anyField: the latter of some title line; ended: a
\* `!sample_table_end` was read; endedAfterTitle: one was read after a title
\* line.  secs: the sections with an identifier that are complete; nsec: the
\* sections per identifier (2 for two or more); hasRows: the identifiers of
\* the sections with a data row; expectKeys: the identifiers of the sections
\* with a `!sample_table_end` after a title line whose field has the substring.
\* platformFault / sampleFault: the pass has raised; platformAtFault: the
\* entries the platform pass held when it raised; samplesAtFault: the samples
\* the sample pass had stored when it raised.  prev: per file and substring,
\* what the first extraction of them stored and sent, and how many there were.
\* firstSeen: the sample identifiers in the order of their first `^SAMPLE`
\* line; endOrder: the identifiers in the order of their first
\* `!sample_table_end` after a title line whose field has the substring.
\* annotated: the first column, as written, of the platform rows that gave
\* an entry.  seen: the kinds of lines read (see NoteKinds).  last: the line
\* read last, as the file has it.  psec: a `^PLATFORM` line was read; ptab:
\* where the line read last leaves the platform table, "begun" after a
\* `!platform_table_begin` of a platform section, "body" once a line that is
\* no tag has followed it, "none" from a `^PLATFORM` or `!platform_table_end`
\* line on.  begun: a `!sample_table_begin` was read in the section being
\* read after a title line whose field has the substring; inTable: one was
\* read and no `!sample_table_end` since; tableRows: the data rows read in
\* that table, by probe; chars: per identifier, the text of the
\* characteristics lines read after such a title line of their section, in
\* file order; charSkipped: a characteristics line was read elsewhere.
NoSection ==
  [open |-> FALSE, id |-> Empty, titles |-> 0, full |-> FALSE, field |-> FALSE,
   anyField |-> FALSE, ended |-> FALSE, endedAfterTitle |-> FALSE]

HistInit ==
  [sec |-> NoSection, secs |-> {}, nsec |-> EmptyMap, hasRows |-> {}, expectKeys |-> {},
   platformFault |-> FALSE, platformAtFault |-> EmptyMap,
   sampleFault |-> FALSE, samplesAtFault |-> {}, prev |-> EmptyMap,
   firstSeen |-> << >>, endOrder |-> << >>, annotated |-> {}, seen |-> {},
   last |-> Empty, psec |-> FALSE, ptab |-> "none",
   begun |-> FALSE, chars |-> EmptyMap, charSkipped |-> FALSE,
   inTable |-> FALSE, tableRows |-> EmptyMap]

\* A new call: the record starts afresh, the results of earlier calls stay.
HistReset(h) == [HistInit EXCEPT !.prev = h.prev]

Closed(h) == IF h.sec.open /\ h.sec.id # Empty THEN h.secs \cup {h.sec} ELSE h.secs

Record(h, raw, substring) ==
  LET line == Strip(raw)
      s == h.sec
      named == s.open /\ s.id # Empty
  IN  IF StartsWith(line, TagSample)
        THEN LET id == FieldAfterEq(line)
             IN  [h EXCEPT !.sec = [NoSection EXCEPT !.open = TRUE, !.id = id],
                           !.secs = Closed(h),
                           !.nsec = IF id = Empty THEN @
                                    ELSE MapSet(@, id, IF id \in DOMAIN @ THEN 2 ELSE 1)]
      ELSE IF StartsWith(line, TagTitle)
        THEN LET full == OccursIgnoringCase(substring, TextAfterEq(line))
                 field == OccursIgnoringCase(substring, FieldAfterEq(line))
             IN  IF ~s.open THEN h
                 ELSE [h EXCEPT !.sec =
                        [s EXCEPT !.titles = IF @ = 0 THEN 1 ELSE 2,
                                  !.full = IF s.titles = 0 THEN full ELSE @,
                                  !.field = IF s.titles = 0 THEN field ELSE @,
                                  !.anyField = @ \/ field]]
      ELSE IF StartsWith(line, TagSampleEnd)
        THEN IF ~s.open THEN h
             ELSE [h EXCEPT !.sec = [s EXCEPT !.ended = TRUE,
                                              !.endedAfterTitle = @ \/ s.titles > 0],
                            !.expectKeys = IF named /\ s.anyField
                                             THEN @ \cup {s.id} ELSE @]
      ELSE IF named /\ IsDataRow(line)
        THEN [h EXCEPT !.hasRows = @ \cup {s.id}]
      ELSE h

\* At the end of the file the last section is complete too.
RecordEnd(h) == [h EXCEPT !.sec = NoSection, !.secs = Closed(h)]

\* ------------------------------------------------------------------------
\* The widget.

VARIABLES
  soft_file_path,          \* setting
  sample_substring,        \* setting
  transform_log2,          \* setting
  platform_data,           \* self.platform_data
  log,                     \* the last message extract_data left in the log area
  pc,                      \* "idle"; inside extract_data "parsing", then "done"
  pp,                      \* locals of parse_platform_data
  sp,                      \* locals of parse_soft_file_directly
  nread,                   \* lines read so far by the running extraction
  expression_data,         \* extract_data's local: the first returned mapping
  sample_characteristics,  \* extract_data's local: the second returned mapping
  sent,                    \* what the running call has sent on Outputs.data
  obs,                     \* what the title lines read so far say (see Observe)
  hist                     \* the sections read so far (see Record)

vars ==
  << soft_file_path, sample_substring, transform_log2, platform_data, log, pc, pp, sp,
     nread, expression_data, sample_characteristics, sent, obs, hist >>

settings == << soft_file_path, sample_substring, transform_log2 >>

call ==
  << pc, pp, sp, nread, expression_data, sample_characteristics, sent, obs, hist >>

Init ==
  /\ soft_file_path = Empty
  /\ sample_substring = DefaultSubstring
  /\ transform_log2 = FALSE
  /\ platform_data = EmptyMap
  /\ log = "empty"
  /\ pc = "idle"
  /\ pp = PlatformLocalsInit
  /\ sp = SampleLocalsInit
  /\ nread = 0
  /\ expression_data = << >>
  /\ sample_characteristics = EmptyMap
  /\ sent = NothingSent
  /\ obs = ObsInit
  /\ hist = HistInit

\* on_file_changed / browse_file
SetFilePath(path) ==
  /\ pc = "idle"
  /\ path # soft_file_path
  /\ soft_file_path' = path
  /\ UNCHANGED << sample_substring, transform_log2, platform_data, log, call >>

\* The substring line edit.
SetSubstring(substring) ==
  /\ pc = "idle"
  /\ substring # sample_substring
  /\ sample_substring' = substring
  /\ UNCHANGED << soft_file_path, transform_log2, platform_data, log, call >>

\* The log2 check box.
SetTransform ==
  /\ pc = "idle"
  /\ transform_log2' = ~transform_log2
  /\ UNCHANGED << soft_file_path, sample_substring, platform_data, log, call >>

\* The two argument checks at the head of extract_data.
InvalidFile == soft_file_path = Empty \/ ~Exists(soft_file_path)

\* A check of the substring without `.strip()`.
BlankSubstringUnstripped == sample_substring = Empty

BlankSubstring == Strip(sample_substring) = Empty

\* extract_data returning at one of its argument checks.
ExtractReject ==
  /\ pc = "idle"
  /\ InvalidFile \/ BlankSubstring
  /\ log' = IF InvalidFile THEN "Please select a valid SOFT file"
                           ELSE "Please enter a sample substring"
  /\ UNCHANGED << settings, platform_data, call >>

\* A start whose platform pass adds to the mapping the widget stored.
ExtractBeginKeeping ==
  /\ pc = "idle"
  /\ ~(InvalidFile \/ BlankSubstring)
  /\ pc' = "parsing"
  /\ log' = "Parsing SOFT file"
  /\ pp' = [PlatformLocalsInit EXCEPT !.platform_data = platform_data]
  /\ sp' = SampleLocalsInit
  /\ nread' = 0
  /\ expression_data' = << >>
  /\ sample_characteristics' = EmptyMap
  /\ sent' = NothingSent
  /\ obs' = ObsInit
  /\ hist' = HistReset(hist)
  /\ UNCHANGED << settings, platform_data >>

\* extract_data past its checks: the log is cleared and the passes start.
ExtractBegin ==
  /\ pc = "idle"
  /\ ~(InvalidFile \/ BlankSubstring)
  /\ pc' = "parsing"
  /\ log' = "Parsing SOFT file"
  /\ pp' = PlatformLocalsInit
  /\ sp' = SampleLocalsInit
  /\ nread' = 0
  /\ expression_data' = << >>
  /\ sample_characteristics' = EmptyMap
  /\ sent' = NothingSent
  /\ obs' = ObsInit
  /\ hist' = HistReset(hist)
  /\ UNCHANGED << settings, platform_data >>

\* No sample identifier holds more than MaxChars characteristic lines.
CharsWithinBound(s) ==
  \A id \in DOMAIN s.sample_characteristics :
    Len(s.sample_characteristics[id]) <= MaxChars

\* Both loops take the next line of the file.
ReadLine(raw, limit) ==
  /\ pc = "parsing"
  /\ nread < limit
  /\ CharsWithinBound(SampleLine(sp, DecodeLocale(raw), sample_substring))
  /\ pp' = PlatformStep(pp, raw)
  /\ sp' = IF sp.raised THEN sp ELSE SampleLine(sp, DecodeLocale(raw), sample_substring)
  /\ nread' = nread + 1
  /\ obs' = Observe(obs, raw, sample_substring)
  /\ UNCHANGED << settings, platform_data, log, pc, expression_data,
                  sample_characteristics, sent >>

\* A line with bytes the locale's codec rejects (UTF-8): the platform pass
\* drops the bytes, the sample pass raises UnicodeDecodeError.
ReadUndecodable(raw, limit) ==
  /\ pc = "parsing"
  /\ nread < limit
  /\ Undecodable(raw)
  /\ pp' = PlatformStep(pp, raw)
  /\ sp' = IF sp.raised THEN sp ELSE SampleRaise(sp)
  /\ nread' = nread + 1
  /\ obs' = Observe(obs, raw, sample_substring)
  /\ UNCHANGED << settings, platform_data, log, pc, expression_data,
                  sample_characteristics, sent >>

\* The platform pass fails on its file (open or read raises OSError).
PlatformFault ==
  /\ pc = "parsing"
  /\ ~pp.raised
  /\ pp' = PlatformRaise(pp)
  /\ UNCHANGED << settings, platform_data, log, pc, sp, nread, expression_data,
                  sample_characteristics, sent, obs >>

\* The sample pass fails inside its `try`.
SampleFault ==
  /\ pc = "parsing"
  /\ ~sp.raised
  /\ sp' = SampleRaise(sp)
  /\ UNCHANGED << settings, platform_data, log, pc, pp, nread, expression_data,
                  sample_characteristics, sent, obs >>

\* The message extract_data ends with.
FinalLog(expr, output) ==
  IF expr = << >> THEN "No samples found containing substring"
  ELSE IF output = SentNone THEN "No gene expression data found"
  ELSE "Created Orange Table"

\* End of file: both passes return and extract_data runs to its last
\* statement.
EndOfFile ==
  /\ pc = "parsing"
  /\ platform_data' = PlatformReturn(pp)
  /\ expression_data' = SampleReturn(sp).matching_samples
  /\ sample_characteristics' = SampleReturn(sp).sample_characteristics
  /\ sent' = Assemble(SampleReturn(sp).matching_samples,
                      SampleReturn(sp).sample_characteristics,
                      PlatformReturn(pp), transform_log2)
  /\ log' = FinalLog(SampleReturn(sp).matching_samples,
                     Assemble(SampleReturn(sp).matching_samples,
                              SampleReturn(sp).sample_characteristics,
                              PlatformReturn(pp), transform_log2))
  /\ pc' = "done"
  /\ pp' = PlatformLocalsInit
  /\ sp' = SampleLocalsInit
  /\ UNCHANGED << settings, nread, obs >>

\* extract_data returns: its locals are gone, the widget keeps its settings,
\* its log and self.platform_data.
Return ==
  /\ pc = "done"
  /\ pc' = "idle"
  /\ nread' = 0
  /\ expression_data' = << >>
  /\ sample_characteristics' = EmptyMap
  /\ sent' = NothingSent
  /\ obs' = ObsInit
  /\ hist' = HistReset(hist)
  /\ UNCHANGED << settings, platform_data, log, pp, sp >>

\* A line of a file whose sections are recorded.
ReadRecorded(raw) ==
  /\ ReadLine(raw, MaxLines)
  /\ hist' = Record(hist, raw, sample_substring)

EndRecorded ==
  /\ EndOfFile
  /\ hist' = RecordEnd(hist)

Next ==
  \/ \E path \in Paths : SetFilePath(path)
  \/ \E substring \in Substrings : SetSubstring(substring)
  \/ ExtractReject
  \/ ExtractBegin
  \/ \E raw \in Lines : ReadRecorded(raw)
  \/ EndRecorded
  \/ Return

Spec == Init /\ [][Next]_vars

\* Longer files of sample sections, their sections not recorded.
TableLines ==
  {LineSample1, LineSample2, LineTitleBasal, LineTitleX, LineCharTissue,
   LineSampleBegin, LineSampleEnd, LineRow1, LineRow2}

ReadTable(raw) ==
  /\ ReadLine(raw, MaxTableLines)
  /\ UNCHANGED hist

EndTable ==
  /\ EndOfFile
  /\ UNCHANGED hist

NextTable ==
  \/ \E path \in Paths : SetFilePath(path)
  \/ \E substring \in Substrings : SetSubstring(substring)
  \/ SetTransform
  \/ ExtractReject
  \/ ExtractBegin
  \/ \E raw \in TableLines : ReadTable(raw)
  \/ EndTable
  \/ Return

SpecTable == Init /\ [][NextTable]_vars

\* Files with bytes that are not valid UTF-8.
LineBinaryComment == << "#", "0xFF" >>
LineBinaryRow == << "P1", "TAB", "1956", "0xFF" >>

BinaryLines == {LineBinaryComment, LineBinaryRow}

DecodeLines ==
  {LineSample1, LineTitleBasal, LineSampleBegin, LineSampleEnd, LineRow1,
   LinePlatform, LinePlatformBegin, LineHeader, LinePlatformRow} \cup BinaryLines

\* Lines read from a file with undecodable bytes.
MaxDecodeLines == 8

ReadDecode(raw) ==
  /\ ReadLine(raw, MaxDecodeLines)
  /\ hist' = Record(hist, raw, sample_substring)

ReadFault(raw) ==
  /\ ReadUndecodable(raw, MaxDecodeLines)
  /\ hist' = Record(hist, raw, sample_substring)

NextDecode ==
  \/ \E path \in Paths : SetFilePath(path)
  \/ \E substring \in Substrings : SetSubstring(substring)
  \/ ExtractReject
  \/ ExtractBegin
  \/ \E raw \in DecodeLines : ReadDecode(raw)
  \/ \E raw \in BinaryLines : ReadFault(raw)
  \/ EndRecorded
  \/ Return

SpecDecode == Init /\ [][NextDecode]_vars

\* Files read by passes that may fail: a platform table whose only row has
\* an invalid byte, and a sample section.
FaultLines ==
  {LinePlatform, LinePlatformBegin, LineHeader, LineBinaryRow,
   LineSample1, LineTitleBasal, LineSampleEnd}

\* Lines read from such a file.
MaxFaultLines == 7

\* The sample pass has raised: what it had stored is noted once.
NoteSampleFault(h) ==
  IF h.sampleFault THEN h
  ELSE [h EXCEPT !.sampleFault = TRUE,
                 !.samplesAtFault = {sp.matching_samples[i][1] :
                                       i \in 1..Len(sp.matching_samples)}]

ReadFaulty(raw) ==
  /\ ReadLine(raw, MaxFaultLines)
  /\ hist' = Record(hist, raw, sample_substring)

ReadUndecoded(raw) ==
  /\ ReadUndecodable(raw, MaxFaultLines)
  /\ hist' = NoteSampleFault(Record(hist, raw, sample_substring))

FaultPlatform ==
  /\ PlatformFault
  /\ hist' = [hist EXCEPT !.platformFault = TRUE, !.platformAtFault = pp.platform_data]

FaultSample ==
  /\ SampleFault
  /\ hist' = NoteSampleFault(hist)

NextFault ==
  \/ \E path \in Paths : SetFilePath(path)
  \/ ExtractReject
  \/ ExtractBegin
  \/ \E raw \in FaultLines : ReadFaulty(raw)
  \/ \E raw \in BinaryLines : ReadUndecoded(raw)
  \/ FaultPlatform
  \/ FaultSample
  \/ EndRecorded
  \/ Return

SpecFault == Init /\ [][NextFault]_vars

\* Tables with values whose power of two is and is not a double.
PowerLines ==
  {LineSample1, LineSample2, LineTitleBasal, LineSampleBegin, LineSampleEnd,
   LineRow1, LineRowBig, LineRowNaN}

\* Lines read from such a file.
MaxPowerLines == 10

ReadPower(raw) ==
  /\ ReadLine(raw, MaxPowerLines)
  /\ UNCHANGED hist

NextPower ==
  \/ \E path \in Paths : SetFilePath(path)
  \/ SetTransform
  \/ ExtractReject
  \/ ExtractBegin
  \/ \E raw \in PowerLines : ReadPower(raw)
  \/ EndTable
  \/ Return

SpecPower == Init /\ [][NextPower]_vars

\* The order of the sections of a file, o being what its title lines said
\* before the line.
NoteOrder(h, o, raw) ==
  LET line == Strip(raw)
  IN  IF StartsWith(line, TagSample)
        THEN [h EXCEPT !.firstSeen = IF FieldAfterEq(line) = Empty THEN @
                                     ELSE AppendNew(@, FieldAfterEq(line))]
      ELSE IF StartsWith(line, TagSampleEnd) /\ o.sec_id # Empty /\ o.sec_field
        THEN [h EXCEPT !.endOrder = AppendNew(@, o.sec_id)]
      ELSE h

\* Files whose sections may repeat an identifier.
OrderLines ==
  {LineSample1, LineSample2, LineTitleBasal, LineTitleX, LineSampleBegin,
   LineSampleEnd, LineRow1}

\* Lines read from such a file.
MaxOrderLines == 10

ReadOrder(raw) ==
  /\ ReadLine(raw, MaxOrderLines)
  /\ hist' = NoteOrder(hist, obs, raw)

NextOrder ==
  \/ \E path \in Paths : SetFilePath(path)
  \/ ExtractReject
  \/ ExtractBegin
  \/ \E raw \in OrderLines : ReadOrder(raw)
  \/ EndTable
  \/ Return

SpecOrder == Init /\ [][NextOrder]_vars

\* The first column of a platform row as the file has it, noted when the
\* row gives the platform pass an entry.
NoteAnnotated(h, raw) ==
  IF PlatformStep(pp, raw).platform_data # pp.platform_data
    THEN [h EXCEPT !.annotated = @ \cup {Columns(raw)[1]}]
    ELSE h

\* Files with a platform table and a sample table, probe identifiers with
\* and without a blank before the tab.
AnnotateLines ==
  {LinePlatform, LinePlatformBegin, LineHeader, LinePlatformRow, LinePlatformRowPadded,
   LineSample1, LineTitleBasal, LineSampleBegin, LineSampleEnd,
   LineRow1, LineRow2, LineRowPadded}

\* Lines read from such a file.
MaxAnnotateLines == 10

ReadAnnotate(raw) ==
  /\ ReadLine(raw, MaxAnnotateLines)
  /\ hist' = NoteAnnotated(hist, raw)

NextAnnotate ==
  \/ \E path \in Paths : SetFilePath(path)
  \/ ExtractReject
  \/ ExtractBegin
  \/ \E raw \in AnnotateLines : ReadAnnotate(raw)
  \/ EndTable
  \/ Return

SpecAnnotate == Init /\ [][NextAnnotate]_vars

\* The kinds of a line: its tag, "row" for a line of two columns or more
\* that is no tag line or comment.  A `!platform_table_begin` counts only
\* after a `^PLATFORM` line, that is inside a platform section.
KindsOf(line, before) ==
  {k \in {"sample", "title", "characteristics", "sample_begin", "sample_end",
          "platform", "platform_begin", "row"} :
     CASE k = "sample" -> StartsWith(line, TagSample)
       [] k = "title" -> StartsWith(line, TagTitle)
       [] k = "characteristics" -> StartsWith(line, TagCharacteristics)
       [] k = "sample_begin" -> StartsWith(line, TagSampleBegin)
       [] k = "sample_end" -> StartsWith(line, TagSampleEnd)
       [] k = "platform" -> StartsWith(line, TagPlatform)
       [] k = "platform_begin" ->
            StartsWith(line, TagPlatformBegin) /\ "platform" \in before
       [] k = "row" ->
            /\ Len(Columns(line)) >= 2
            /\ ~StartsWithBang(line) /\ ~StartsWithHash(line)
            /\ ~StartsWith(line, TagSample) /\ ~StartsWith(line, TagPlatform)}

NoteKinds(h, raw) == [h EXCEPT !.seen = @ \cup KindsOf(Strip(raw), @)]

\* Short files of any lines.
MaxBareLines == 5

ReadBare(raw) ==
  /\ ReadLine(raw, MaxBareLines)
  /\ hist' = NoteKinds(hist, raw)

NextBare ==
  \/ \E path \in Paths : SetFilePath(path)
  \/ \E substring \in Substrings : SetSubstring(substring)
  \/ ExtractReject
  \/ ExtractBegin
  \/ \E raw \in Lines : ReadBare(raw)
  \/ EndTable
  \/ Return

SpecBare == Init /\ [][NextBare]_vars

\* Platform tables: headers with one and with two of the searched columns,
\* rows whose cells hold several alternatives.
LinePlatformNoId == << "^PLATFORM" >>
LineHeaderTwo == << "ID", "TAB", "gene_assignment", "TAB", "GENE" >>
LineRowBoth == << "P1", "TAB", "7157", "TAB", "1956" >>
LineRowLower == << "P2", "TAB", "7157", "TAB", "abc" >>
LineRowNone == << "P1", "TAB", "abc", "TAB", "12" >>
LineRowShortFirst == << "P2", "TAB", "12", "/", "/", "/", "1956" >>
LineRowColon == << "P1", "TAB", "EG", ":", "12" >>
LinePlatformComment == << "#", "P1", "TAB", "1956" >>
LineDirective == << "!Sample_organism", "TAB", "1956" >>

PlatformTableLines ==
  {LinePlatform, LinePlatformNoId, LinePlatformBegin, LinePlatformEnd,
   LineHeader, LineHeaderTwo, LinePlatformRow, LineRowBoth, LineRowLower,
   LineRowNone, LineRowShortFirst, LineRowColon, LinePlatformComment,
   LineDirective}

\* Lines read from such a file.
MaxPlatformLines == 6

\* Where a line leaves the platform table, read off the lines alone.
NotePlatform(h, raw) ==
  LET line == Strip(raw)
  IN  IF StartsWith(line, TagPlatform)
        THEN [h EXCEPT !.last = raw, !.psec = TRUE, !.ptab = "none"]
      ELSE IF h.psec /\ StartsWith(line, TagPlatformBegin)
        THEN [h EXCEPT !.last = raw, !.ptab = "begun"]
      ELSE IF StartsWith(line, TagPlatformEnd)
        THEN [h EXCEPT !.last = raw, !.ptab = "none"]
      ELSE IF h.ptab = "begun"
        THEN [h EXCEPT !.last = raw, !.ptab = "body"]
      ELSE [h EXCEPT !.last = raw]

ReadPlatform(raw) ==
  /\ ReadLine(raw, MaxPlatformLines)
  /\ hist' = NotePlatform(hist, raw)

NextPlatform ==
  \/ \E path \in Paths : SetFilePath(path)
  \/ ExtractReject
  \/ ExtractBegin
  \/ \E raw \in PlatformTableLines : ReadPlatform(raw)
  \/ EndTable
  \/ Return

SpecPlatform == Init /\ [][NextPlatform]_vars

\* What the lines of a sample section say, o being what its title lines
\* said before the line.
NoteSection(h, o, raw) ==
  LET line == Strip(raw)
      matched == o.sec_id # Empty /\ o.sec_field
  IN  IF StartsWith(line, TagSample)
        THEN [h EXCEPT !.last = raw, !.begun = FALSE, !.inTable = FALSE,
                       !.tableRows = EmptyMap]
      ELSE IF StartsWith(line, TagTitle)
        THEN [h EXCEPT !.last = raw]
      ELSE IF StartsWith(line, TagCharacteristics)
        THEN [h EXCEPT !.last = raw,
                       !.chars = IF matched
                                   THEN MapSet(@, o.sec_id,
                                               Append(IF o.sec_id \in DOMAIN @
                                                        THEN @[o.sec_id] ELSE << >>,
                                                      FieldAfterEq(line)))
                                   ELSE @,
                       !.charSkipped = @ \/ ~matched]
      ELSE IF StartsWith(line, TagSampleBegin)
        THEN IF matched
               THEN [h EXCEPT !.last = raw, !.begun = TRUE, !.inTable = TRUE,
                              !.tableRows = EmptyMap]
               ELSE [h EXCEPT !.last = raw]
      ELSE IF StartsWith(line, TagSampleEnd)
        THEN [h EXCEPT !.last = raw, !.inTable = FALSE,
                       !.expectKeys = IF matched THEN @ \cup {o.sec_id} ELSE @]
      ELSE IF h.inTable /\ IsDataRow(line)
        THEN [h EXCEPT !.last = raw,
                       !.tableRows = MapSet(@, Columns(line)[1], Float(Columns(line)[2]))]
      ELSE [h EXCEPT !.last = raw]

\* Files of sample sections with titles of both kinds, characteristics
\* lines and tables.
SectionLines ==
  {LineSample1, LineSample2, LineSampleNoId, LineTitleBasal, LineTitleX,
   LineCharTissue, LineCharFree, LineSampleBegin, LineSampleEnd, LineRow1, LineRow2}

\* Lines read from such a file.
MaxSectionLines == 8

ReadSection(raw) ==
  /\ ReadLine(raw, MaxSectionLines)
  /\ hist' = NoteSection(hist, obs, raw)

NextSection ==
  \/ \E path \in Paths : SetFilePath(path)
  \/ ExtractReject
  \/ ExtractBegin
  \/ \E raw \in SectionLines : ReadSection(raw)
  \/ EndTable
  \/ Return

SpecSection == Init /\ [][NextSection]_vars

\* Files whose sections repeat an identifier or hold more than one table.
RepeatLines ==
  {LineSample1, LineSample2, LineTitleBasal, LineSampleBegin, LineSampleEnd,
   LineRow1, LineRow2}

\* Lines read from such a file.
MaxRepeatLines == 10

ReadRepeat(raw) ==
  /\ ReadLine(raw, MaxRepeatLines)
  /\ hist' = NoteSection(hist, obs, raw)

NextRepeat ==
  \/ \E path \in Paths : SetFilePath(path)
  \/ ExtractReject
  \/ ExtractBegin
  \/ \E raw \in RepeatLines : ReadRepeat(raw)
  \/ EndTable
  \/ Return

SpecRepeat == Init /\ [][NextRepeat]_vars

\* Files whose characteristics lines have a label of their own, a label of
\* the generated form, or none.
LineCharNumbered ==
  << "!Sample_characteristics_ch1", " ", "=", " ", "Characteristic", " ", "1", ":", " ", "liver" >>

LabelLines ==
  {LineSample1, LineTitleBasal, LineCharTissue, LineCharFree, LineCharNumbered,
   LineSampleBegin, LineSampleEnd, LineRow1}

\* Lines read from such a file.
MaxLabelLines == 7

ReadLabels(raw) ==
  /\ ReadLine(raw, MaxLabelLines)
  /\ hist' = NoteSection(hist, obs, raw)

NextLabels ==
  \/ \E path \in Paths : SetFilePath(path)
  \/ ExtractReject
  \/ ExtractBegin
  \/ \E raw \in LabelLines : ReadLabels(raw)
  \/ EndTable
  \/ Return

SpecLabels == Init /\ [][NextLabels]_vars

\* The lines of the two fixed files: one with a platform table and a
\* sample, one with two samples and no platform section.
Content(path) ==
  IF path = FileA
    THEN << LinePlatform, LinePlatformBegin, LineHeader, LinePlatformRow,
            LineSample1, LineTitleBasal, LineSampleBegin, LineRow1, LineSampleEnd >>
    ELSE << LineSample2, LineTitleX, LineSampleBegin, LineRow1, LineSampleEnd,
            LineSample1, LineTitleBasal, LineCharTissue, LineSampleBegin, LineRow1,
            LineRow2, LineSampleEnd >>

\* Extractions counted per file and substring.
MaxRuns == 2

\* What an extraction leaves: the stored platform mapping, the two returned
\* mappings and the output.
Outcome(platform, expr, chars, output) ==
  [platform_data |-> platform, expression_data |-> expr,
   sample_characteristics |-> chars, sent |-> output]

NoteOutcome(h, key, outcome) ==
  [h EXCEPT !.prev =
     MapSet(@, key,
            IF key \in DOMAIN @
              THEN [first |-> @[key].first,
                    runs |-> IF @[key].runs < MaxRuns THEN @[key].runs + 1 ELSE MaxRuns]
              ELSE [first |-> outcome, runs |-> 1])]

ReadFixed ==
  /\ soft_file_path \in FixedPaths
  /\ ReadLine(Content(soft_file_path)[nread + 1], Len(Content(soft_file_path)))
  /\ UNCHANGED hist

EndFixed ==
  /\ nread = Len(Content(soft_file_path))
  /\ EndOfFile
  /\ hist' = NoteOutcome(hist, << soft_file_path, sample_substring >>,
                         Outcome(platform_data', expression_data',
                                 sample_characteristics', sent'))

NextTwice ==
  \/ \E path \in FixedPaths : SetFilePath(path)
  \/ \E substring \in {<< "x" >>, DefaultSubstring} : SetSubstring(substring)
  \/ ExtractReject
  \/ ExtractBegin
  \/ ReadFixed
  \/ EndFixed
  \/ Return

SpecTwice == Init /\ [][NextTwice]_vars

\* ------------------------------------------------------------------------
\* Properties.

\* extract_data has run to its last statement; its locals hold what the
\* passes returned and what it sent.
Done == pc = "done"

Keys(d) == {d[i][1] : i \in 1..Len(d)}

Range(q) == {q[i] : i \in 1..Len(q)}

\* C1: for every section whose identifier no other section carries, with
\* one `!Sample_title` line and a `!sample_table_end` line after it, the
\* identifier is a key of the returned expression mapping iff the substring
\* occurs, ignoring case, in the text after `=` of the title line.
C1_KeyIffTitleHasSubstring ==
  Done =>
    \A s \in hist.secs :
      (s.titles = 1 /\ s.endedAfterTitle /\ hist.nsec[s.id] = 1)
        => (s.id \in Keys(expression_data) <=> s.full)

\* A section whose title has the substring after a second `=` is no key.
C1_TitleCutAtSecondEquals ==
  /\ Done
  /\ \E s \in hist.secs :
       /\ s.titles = 1 /\ s.endedAfterTitle /\ hist.nsec[s.id] = 1
       /\ s.full /\ ~s.field
       /\ s.id \notin Keys(expression_data)

\* C2: a sample none of whose title lines has the substring is a key of
\* neither returned mapping and no column of the matrix, and every probe row
\* of the matrix comes from a data row read after a title line with the
\* substring.
C2_UnmatchedSampleExcluded ==
  Done =>
    /\ Keys(expression_data) \subseteq obs.titleHit
    /\ DOMAIN sample_characteristics \subseteq obs.titleHit
    /\ sent.k = "table" =>
         /\ Range(sent.table.sample_names) \subseteq obs.titleHit
         /\ Range(sent.table.genes) \subseteq obs.okProbes

\* A matrix is assembled from a file that also has a sample whose title
\* lacks the substring, with a data row of a probe no matched sample has.
C2_Witness ==
  /\ Done
  /\ sent.k = "table"
  /\ \E id \in obs.titleMiss \ obs.titleHit : id \notin Keys(expression_data)
  /\ obs.otherProbes \ Range(sent.table.genes) # {}

\* What C3 calls a recordable row: two columns or more, the second a number.
NumericRow(line) == Len(Columns(line)) >= 2 /\ Float(Columns(line)[2]).k = "num"

\* C3, as stated: reading a line that has a single column, or whose second
\* column is `NaN` or another text that is no number, leaves every sample's
\* value map as it was.
C3_OnlyNumericRowsRecorded ==
  [][\A raw \in Lines :
       (ReadRecorded(raw) /\ ~NumericRow(Strip(raw))) => sp'.sample_data = sp.sample_data]_vars

\* The value of a characteristic line: the text after its first `:`, the
\* whole line when it has none.
ValueOf(char_line) ==
  IF Contains(char_line, << ":" >>)
    THEN Strip(SplitOnce(char_line, << ":" >>)[2])
    ELSE Strip(char_line)

\* "|".join of the values of the lines.
RECURSIVE JoinValues(_)
JoinValues(characteristics_list) ==
  IF characteristics_list = << >> THEN << >>
  ELSE IF Len(characteristics_list) = 1 THEN ValueOf(characteristics_list[1])
  ELSE ValueOf(characteristics_list[1]) \o << "|" >> \o JoinValues(Tail(characteristics_list))

\* C4, as stated: the `class` attribute of every column with characteristic
\* lines is the values of the lines joined with `|` in encounter order, a
\* separator between consecutive values and none leading or trailing.
C4_ClassJoinsValues ==
  (Done /\ sent.k = "table") =>
    \A j \in 1..Len(sent.table.sample_names) :
      sent.table.sample_names[j] \in DOMAIN sample_characteristics =>
        sent.table.attributes[j][<< "class" >>]
          = JoinValues(sample_characteristics[sent.table.sample_names[j]])

\* A column whose sample has two characteristic lines: its `class` ends
\* with the separator and has none between the values.
C4_TwoLines ==
  /\ Done
  /\ sent.k = "table"
  /\ \E j \in 1..Len(sent.table.sample_names) :
       /\ sent.table.sample_names[j] \in DOMAIN sample_characteristics
       /\ Len(sample_characteristics[sent.table.sample_names[j]]) = 2
       /\ sent.table.attributes[j][<< "class" >>] = << "liver", "liver", "|" >>

\* The probes of the returned expression mapping.
ReturnedProbes ==
  UNION {DOMAIN expression_data[i][2] : i \in 1..Len(expression_data)}

\* The value a cell shows: the recorded one, or 2 to its power when the
\* transform is chosen.
Shown(value) == IF transform_log2 THEN Pow2(value) ELSE value

\* C5: the rows of the matrix are the probes of all returned value maps,
\* each once and in ascending order; cell (probe, sample) holds the sample's
\* value for the probe (2 to its power when the transform is chosen) when the
\* sample has one and NaN otherwise.
C5_RowsAreSortedUnion ==
  (Done /\ sent.k = "table") =>
    LET t == sent.table
    IN  /\ Range(t.genes) = ReturnedProbes
        /\ Len(t.genes) = Cardinality(ReturnedProbes)
        /\ \A i, k \in 1..Len(t.genes) : i < k => StrLess(t.genes[i], t.genes[k])
        /\ Len(t.X) = Len(t.genes)
        /\ \A i \in 1..Len(t.genes) :
             /\ Len(t.X[i]) = Len(expression_data)
             /\ \A j \in 1..Len(expression_data) :
                  /\ t.sample_names[j] = expression_data[j][1]
                  /\ t.X[i][j] = IF t.genes[i] \in DOMAIN expression_data[j][2]
                                   THEN Shown(expression_data[j][2][t.genes[i]])
                                   ELSE NaN

\* Two samples, each with a probe the other lacks: each probe is a row,
\* missing in the other sample's column.
C5_Witness ==
  /\ Done
  /\ sent.k = "table"
  /\ Len(sent.table.sample_names) = 2
  /\ sent.table.genes = << << "P1" >>, << "P2" >> >>
  /\ \E j, k \in 1..2 :
       /\ j # k
       /\ sent.table.X[1][j] # NaN /\ sent.table.X[1][k] = NaN
       /\ sent.table.X[2][k] # NaN /\ sent.table.X[2][j] = NaN

\* C6, as stated: when some sample's title has the substring, a matrix is
\* produced with one row per probe read in the matched samples and one
\* column per matched sample.
C6_MatrixWheneverTitleMatches ==
  (Done /\ obs.titleHit # {}) =>
    /\ sent.k = "table"
    /\ Len(sent.table.genes) = Cardinality(obs.okProbes)
    /\ Len(sent.table.sample_names) = Cardinality(obs.titleHit)

\* C6, amended: a matrix is produced iff the returned expression mapping
\* has a key and some value map of it has a probe, and otherwise None is
\* sent; the matrix has one row per probe of the value maps and one column
\* per key, the keys with an empty value map included.
C6_DimensionsWhenAssembled ==
  Done =>
    IF expression_data # << >> /\ ReturnedProbes # {}
      THEN /\ sent.k = "table"
           /\ Len(sent.table.genes) = Cardinality(ReturnedProbes)
           /\ Len(sent.table.X) = Cardinality(ReturnedProbes)
           /\ Len(sent.table.sample_names) = Len(expression_data)
           /\ Cardinality(Range(sent.table.sample_names)) = Len(expression_data)
           /\ \A i \in 1..Len(sent.table.X) : Len(sent.table.X[i]) = Len(expression_data)
      ELSE sent = SentNone

\* A matrix of two columns, one of a sample whose table has no row.
C6_Witness ==
  /\ Done
  /\ sent.k = "table"
  /\ Len(sent.table.sample_names) = 2
  /\ \E j \in 1..2 : expression_data[j][2] = EmptyMap
  /\ \A i \in 1..Len(sent.table.X) : Len(sent.table.X[i]) = 2

\* C7, as stated: when no title line has the substring, both returned
\* mappings are empty and a matrix without rows and columns is produced.
C7_EmptyMatrixWhenNoMatch ==
  (Done /\ ~obs.anyTitleHit) =>
    /\ expression_data = << >>
    /\ sample_characteristics = EmptyMap
    /\ sent.k = "table"
    /\ sent.table.genes = << >>
    /\ sent.table.sample_names = << >>

\* C7, amended: when no title line has the substring, both returned
\* mappings are empty, None is sent and the log ends with the message that
\* no sample contains the substring.
C7_NoneWhenNoMatch ==
  (Done /\ ~obs.anyTitleHit) =>
    /\ expression_data = << >>
    /\ sample_characteristics = EmptyMap
    /\ sent = SentNone
    /\ log = "No samples found containing substring"

\* A file with a titled section, its table closed and with a data row, and
\* no title with the substring.
C7_Witness ==
  /\ Done
  /\ ~obs.anyTitleHit
  /\ sent = SentNone
  /\ \E s \in hist.secs : s.titles = 1 /\ s.endedAfterTitle /\ s.id \in hist.hasRows

\* C8, as stated: every sample with a title line that has the substring is
\* a key of the returned expression mapping, with an empty value map when no
\* data row was read for it.
C8_EntryForEveryMatchedTitle ==
  Done =>
    \A id \in obs.titleHit :
      /\ id \in Keys(expression_data)
      /\ id \notin hist.hasRows => DictGet(expression_data, id) = EmptyMap

\* C8, amended: every sample for which a `!sample_table_end` line is read
\* after a title line of the same section whose title (the text between the
\* first `=` and the next) has the substring is a key of the returned
\* expression mapping; its value map is empty when no section with that
\* identifier has a data row whose second column float() accepts.
C8_EntryForEveryClosedMatch ==
  Done =>
    \A id \in hist.expectKeys :
      /\ id \in Keys(expression_data)
      /\ id \notin hist.hasRows => DictGet(expression_data, id) = EmptyMap

\* A matched sample whose table is closed without a data row is a key with
\* an empty value map.
C8_Witness ==
  /\ Done
  /\ \E id \in hist.expectKeys \ hist.hasRows :
       /\ id \in Keys(expression_data)
       /\ DictGet(expression_data, id) = EmptyMap

\* The arguments C9 is about: a substring that is empty or of white space
\* only, a path that is empty or names no file.
RejectedArguments ==
  \/ \A i \in 1..Len(sample_substring) : sample_substring[i] = " "
  \/ soft_file_path = Empty
  \/ soft_file_path = MissingPath

\* C9: with such arguments no step starts a pass or changes a pass's locals,
\* and the stored platform_data stays as it is.
C9_InvalidArgumentsRejected ==
  [][(pc = "idle" /\ RejectedArguments)
       => (pc' = "idle" /\ platform_data' = platform_data /\ pp' = pp /\ sp' = sp
           /\ nread' = nread)]_vars

\* A call with a substring of white space is rejected after an earlier call
\* stored platform entries: they are still there.
C9_Witness ==
  /\ pc = "idle"
  /\ sample_substring = << " " >>
  /\ soft_file_path = DataPath
  /\ log = "Please enter a sample substring"
  /\ platform_data # EmptyMap

\* C10, as stated: whatever bytes the lines hold, every sample with a
\* `!sample_table_end` line after a title line with the substring is a key
\* of the returned expression mapping.
C10_UndecodableLinesTolerated ==
  Done => hist.expectKeys \subseteq Keys(expression_data)

\* The sample pass has raised on a line the platform pass went on from.
C10_SamplePassRaised ==
  /\ Done
  /\ hist.expectKeys # {}
  /\ expression_data = << >>
  /\ platform_data # EmptyMap

\* C11, as stated: when the platform pass fails, parse_platform_data
\* returns an empty mapping, whatever it had recorded.
C11_EmptyMappingOnPlatformError ==
  (Done /\ hist.platformFault) => platform_data = EmptyMap

\* C11, amended: when the platform pass fails, parse_platform_data returns
\* the entries it had recorded before the failure, those of rows with
\* undecodable bytes included.
C11_RecordedEntriesOnPlatformError ==
  (Done /\ hist.platformFault) => platform_data = hist.platformAtFault

\* The pass fails after the row with the invalid byte gave an entry, and
\* the entry is returned.
C11_Witness ==
  /\ Done
  /\ hist.platformFault
  /\ hist.platformAtFault # EmptyMap
  /\ platform_data = hist.platformAtFault

\* C12: a failure of the platform pass ends that pass only: the entries
\* recorded before it are stored, the sample pass returns every sample
\* closed after a matching title, and extract_data goes on to send its
\* output.
C12_PlatformFaultEndsThatPassOnly ==
  (Done /\ hist.platformFault) =>
    /\ platform_data = hist.platformAtFault
    /\ ~hist.sampleFault => hist.expectKeys \subseteq Keys(expression_data)
    /\ sent # NothingSent

\* The platform pass fails before the table's row, the sample pass goes on
\* and returns the sample.
C12_Witness ==
  /\ Done
  /\ hist.platformFault
  /\ ~hist.sampleFault
  /\ nread = MaxFaultLines
  /\ platform_data = EmptyMap
  /\ Keys(expression_data) = {<< "G1" >>}

\* C13: when the sample pass fails, parse_soft_file_directly returns two
\* empty mappings, whatever it had stored, and extract_data goes on to send
\* None.
C13_EmptyPairOnSampleFault ==
  (Done /\ hist.sampleFault) =>
    /\ expression_data = << >>
    /\ sample_characteristics = EmptyMap
    /\ sent = SentNone

\* The pass fails after it stored a sample; the platform pass has its entry.
C13_Witness ==
  /\ Done
  /\ hist.sampleFault
  /\ hist.samplesAtFault # {}
  /\ expression_data = << >>
  /\ platform_data # EmptyMap

\* What the extraction that has just ended stored and sent.
ThisOutcome == Outcome(platform_data, expression_data, sample_characteristics, sent)

PowerOrMissing(value) ==
  IF value.k = "nan" \/ value.v > MaxExponent THEN NaN ELSE [k |-> "pow2", v |-> value.v]

\* C15: with the option set a present cell holds 2 to the power of the
\* parsed value, or NaN when that overflows or is invalid; with the option
\* unset it holds the parsed value; an absent cell holds NaN either way.
C15_PowerOrMissing ==
  (Done /\ sent.k = "table") =>
    \A i \in 1..Len(sent.table.genes) : \A j \in 1..Len(expression_data) :
      sent.table.X[i][j] =
        IF sent.table.genes[i] \in DOMAIN expression_data[j][2]
          THEN IF transform_log2
                 THEN PowerOrMissing(expression_data[j][2][sent.table.genes[i]])
                 ELSE expression_data[j][2][sent.table.genes[i]]
          ELSE NaN

\* With the option set: a cell with a power, a cell whose power overflows
\* and is missing, and a cell of a probe the sample lacks.
C15_Witness ==
  /\ Done
  /\ sent.k = "table"
  /\ transform_log2
  /\ Len(expression_data) = 2
  /\ \E i, k \in 1..Len(sent.table.genes) : \E j, l \in 1..2 :
       /\ sent.table.X[i][j] = [k |-> "pow2", v |-> 1]
       /\ sent.table.genes[k] \in DOMAIN expression_data[l][2]
       /\ expression_data[l][2][sent.table.genes[k]] = Num(1956)
       /\ sent.table.X[k][l] = NaN
       /\ sent.table.genes[k] \notin DOMAIN expression_data[j][2]
       /\ sent.table.X[k][j] = NaN

\* The characteristic lines returned for a sample, none if it has no entry.
ListOf(name) ==
  IF name \in DOMAIN sample_characteristics THEN sample_characteristics[name] ELSE << >>

\* C16, as stated: every column carries the attributes parsed from its
\* sample's characteristic lines, the `class` entry among them, whether the
\* sample has such lines or not.
C16_EveryColumnHasClass ==
  (Done /\ sent.k = "table") =>
    \A j \in 1..Len(sent.table.sample_names) :
      /\ sent.table.attributes[j]
           = parse_sample_characteristics(ListOf(sent.table.sample_names[j]))
      /\ << "class" >> \in DOMAIN sent.table.attributes[j]

\* C16, amended: a column whose sample has a characteristics line read after
\* a matching title line of its section carries the attributes parsed from
\* the sample's lines, the `class` entry among them; any other column
\* carries no attribute at all.
C16_ClassOnlyWithCharacteristics ==
  (Done /\ sent.k = "table") =>
    \A j \in 1..Len(sent.table.sample_names) :
      LET name == sent.table.sample_names[j]
      IN  /\ name \in obs.charIds <=> name \in DOMAIN sample_characteristics
          /\ IF name \in obs.charIds
               THEN /\ sent.table.attributes[j]
                         = parse_sample_characteristics(sample_characteristics[name])
                    /\ << "class" >> \in DOMAIN sent.table.attributes[j]
               ELSE sent.table.attributes[j] = EmptyMap

\* Two columns: one of a sample with a characteristics line, with `class`,
\* and one of a sample without, with no attribute.
C16_Witness ==
  /\ Done
  /\ sent.k = "table"
  /\ Len(sent.table.sample_names) = 2
  /\ \E j, k \in 1..2 :
       /\ sent.table.sample_names[j] \in obs.charIds
       /\ sent.table.attributes[j][<< "class" >>] = << "liver" >>
       /\ sent.table.sample_names[k] \notin obs.charIds
       /\ sent.table.attributes[k] = EmptyMap

\* C18, as stated: the columns are in the order in which their samples'
\* first `^SAMPLE` lines are read, each identifier once.
C18_ColumnsInEncounterOrder ==
  (Done /\ sent.k = "table") =>
    sent.table.sample_names
      = SelectSeq(hist.firstSeen, LAMBDA id : id \in Range(sent.table.sample_names))

\* C18, amended: the keys of the returned expression mapping, and the
\* columns when a matrix is assembled, are the samples with a
\* `!sample_table_end` line after a matching title line of the section, in
\* the order of the first such line of each, each identifier once.
C18_ColumnsInOrderOfFirstTableEnd ==
  Done =>
    /\ DictKeys(expression_data) = hist.endOrder
    /\ sent.k = "table" => sent.table.sample_names = hist.endOrder

\* G1's first section comes first and is not closed, G2's is closed, then a
\* second section of G1 is: the columns are G2, G1.
C18_Witness ==
  /\ Done
  /\ sent.k = "table"
  /\ hist.firstSeen = << << "G1" >>, << "G2" >> >>
  /\ sent.table.sample_names = << << "G2" >>, << "G1" >> >>

\* C17, as stated: every row carries its probe id and the stored platform
\* mapping's id for that probe, the empty string when there is none; and a
\* probe whose platform row gave an entry, with a value in a returned
\* sample's table, carries that entry.
C17_RowCarriesPlatformEntry ==
  (Done /\ sent.k = "table") =>
    \A i \in 1..Len(sent.table.genes) :
      /\ sent.table.entrez[i] =
           IF sent.table.genes[i] \in DOMAIN platform_data
             THEN platform_data[sent.table.genes[i]]
             ELSE Empty
      /\ sent.table.genes[i] \in hist.annotated => sent.table.entrez[i] # Empty

\* The probe is written with a blank before the tab in both tables: the
\* platform pass stored it without the blank, the row has it with the blank
\* and no annotation.
C17_PaddedProbeLosesEntry ==
  /\ Done
  /\ sent.k = "table"
  /\ platform_data # EmptyMap
  /\ \E i \in 1..Len(sent.table.genes) :
       /\ sent.table.genes[i] = << "P1", " " >>
       /\ sent.table.genes[i] \in hist.annotated
       /\ sent.table.entrez[i] = Empty

\* C19: when no `^SAMPLE` line is read, both returned mappings are empty,
\* whatever the substring and the other lines.
C19_NoSampleLineNoSample ==
  (Done /\ "sample" \notin hist.seen) =>
    /\ expression_data = << >>
    /\ sample_characteristics = EmptyMap

\* A file without `^SAMPLE` line, with a title that has the substring, a
\* characteristics line and a table with a row.
C19_Witness ==
  /\ Done
  /\ "sample" \notin hist.seen
  /\ obs.anyTitleHit
  /\ {"title", "characteristics", "sample_begin", "row", "sample_end"} \subseteq hist.seen
  /\ expression_data = << >>

\* C20: when no `^PLATFORM` line is read, or no `!platform_table_begin` line
\* after one, the stored platform mapping is empty, whatever the other lines.
C20_NoPlatformTableNoEntry ==
  (Done /\ ("platform" \notin hist.seen \/ "platform_begin" \notin hist.seen)) =>
    platform_data = EmptyMap

\* A file with a `^PLATFORM` line and rows of two columns, and no
\* `!platform_table_begin` line after it.
C20_Witness ==
  /\ Done
  /\ {"platform", "row"} \subseteq hist.seen
  /\ "platform_begin" \notin hist.seen
  /\ nread = MaxBareLines
  /\ platform_data = EmptyMap

\* The step that reads one line of the file.
LineRead == pc = "parsing" /\ nread' = nread + 1

\* The line just read is a data row of a platform table whose header has
\* been read.
PlatformRowRead ==
  /\ LineRead
  /\ pp.current_platform # Empty /\ pp.in_platform_table /\ ~pp.in_table_header
  /\ Strip(hist'.last) # Empty
  /\ ~StartsWithBang(Strip(hist'.last)) /\ ~StartsWithHash(Strip(hist'.last))
  /\ ~StartsWith(Strip(hist'.last), TagPlatform)

\* The candidate annotation columns, in priority order.
CandidateColumns ==
  << << "gene" >>, << "geneid" >>, << "entrez_gene_id" >>, << "gene_id" >>,
     << "ncbi_gene_id" >>, << "gene_assignment" >> >>

\* The id the column `name` of the header yields for the row, None when the
\* header has no such column, the row no such cell, or the cell no id.
Yield(name, row, header) ==
  IF name \in DOMAIN header /\ header[name] < Len(Columns(row))
       /\ Strip(Columns(row)[header[name] + 1]) # Empty
    THEN FieldEntrezId(name, Strip(Columns(row)[header[name] + 1]))
    ELSE Empty

\* The places in the priority order of the columns that yield an id.
Yielding(row, header) ==
  {i \in 1..Len(CandidateColumns) : Yield(CandidateColumns[i], row, header) # Empty}

\* C21: a platform data row gets the id of the first candidate column, in
\* priority order, that yields one; a row for which no column yields an id
\* leaves the mapping as it was.
C21_FirstYieldingColumnWins ==
  [][PlatformRowRead =>
       LET row == Strip(hist'.last)
           header == pp.header_indices
       IN  pp'.platform_data =
             IF Yielding(row, header) = {} THEN pp.platform_data
             ELSE MapSet(pp.platform_data, Strip(Columns(row)[1]),
                         Yield(CandidateColumns[Min(Yielding(row, header))], row, header))]_vars

\* A row whose `gene` cell yields no id and whose `gene_assignment` cell
\* does has given the entry, and so has a row whose two cells yield
\* different ids.
C21_Witness ==
  /\ pc = "parsing"
  /\ hist.last = LineRowLower
  /\ << "gene" >> \in DOMAIN pp.header_indices
  /\ << "gene_assignment" >> \in DOMAIN pp.header_indices
  /\ << "P1" >> \in DOMAIN pp.platform_data
  /\ pp.platform_data[<< "P1" >>] = << "1956" >>
  /\ << "P2" >> \in DOMAIN pp.platform_data
  /\ pp.platform_data[<< "P2" >>] = << "7157" >>

\* The `gene` cell of a row under a header, None when there is none.
GeneCell(row, header) ==
  IF << "gene" >> \in DOMAIN header /\ header[<< "gene" >>] < Len(Columns(row))
    THEN Strip(Columns(row)[header[<< "gene" >>] + 1])
    ELSE Empty

\* The alternatives of a value, left to right: the pieces between `///`
\* when the value has one, else the pieces between `//`.
Alternatives(value) ==
  IF Occurrences(value, << "/", "/", "/" >>) # {}
    THEN Split(value, << "/", "/", "/" >>)
    ELSE Split(value, << "/", "/" >>)

\* The places of the alternatives that are all digits.
AllDigitPlaces(alts) == {i \in 1..Len(alts) : IsDigit(Strip(alts[i]))}

\* An alternative that is all digits and longer than two characters, or
\* that has digits alone between its first colon and the next.
LongDigits(a) == IsDigit(a) /\ CharLen(a) > MinIdLen

DigitsAfterColon(a) ==
  Occurrences(a, << ":" >>) # {} /\ IsDigit(Strip(Split(a, << ":" >>)[2]))

IdPlaces(alts) ==
  {i \in 1..Len(alts) : LongDigits(Strip(alts[i])) \/ DigitsAfterColon(Strip(alts[i]))}

IdOf(a) == IF LongDigits(a) THEN a ELSE Strip(Split(a, << ":" >>)[2])

\* C22 as written: the id recorded from the `gene` cell of a row is the
\* first of its alternatives that is all digits.
C22_FirstAllDigitAlternative ==
  [][(PlatformRowRead /\ GeneCell(Strip(hist'.last), pp.header_indices) # Empty) =>
       LET row == Strip(hist'.last)
           alts == Alternatives(GeneCell(row, pp.header_indices))
       IN  AllDigitPlaces(alts) # {} =>
             pp'.platform_data =
               MapSet(pp.platform_data, Strip(Columns(row)[1]),
                      Strip(alts[Min(AllDigitPlaces(alts))]))]_vars

\* C22: the id recorded from the `gene` cell of a row is that of the first
\* of its alternatives, left to right, that is all digits and longer than
\* two characters or that has digits alone after its first colon; header
\* `ID<TAB>GENE` and row `P1<TAB>1956///abc` give P1 -> 1956.
C22_FirstIdAlternative ==
  [][(PlatformRowRead /\ GeneCell(Strip(hist'.last), pp.header_indices) # Empty) =>
       LET row == Strip(hist'.last)
           alts == Alternatives(GeneCell(row, pp.header_indices))
       IN  /\ IdPlaces(alts) # {} =>
                pp'.platform_data =
                  MapSet(pp.platform_data, Strip(Columns(row)[1]),
                         IdOf(Strip(alts[Min(IdPlaces(alts))])))
           /\ (hist'.last = LinePlatformRow) =>
                pp'.platform_data = MapSet(pp.platform_data, << "P1" >>, << "1956" >>)]_vars

\* Under the header `ID<TAB>GENE` the row `P1<TAB>1956///abc` has given
\* P1 -> 1956, and a row whose first alternative is two digits long has
\* given its second one.
C22_Witness ==
  /\ pc = "parsing"
  /\ pp.header_indices = [n \in {<< "id" >>, << "gene" >>} |-> IF n = << "id" >> THEN 0 ELSE 1]
  /\ hist.last = LineRowShortFirst
  /\ << "P1" >> \in DOMAIN pp.platform_data
  /\ pp.platform_data[<< "P1" >>] = << "1956" >>
  /\ << "P2" >> \in DOMAIN pp.platform_data
  /\ pp.platform_data[<< "P2" >>] = << "1956" >>

\* Every value of a probe-to-id mapping is a non-empty string of digits.
DigitValues(m) == \A probe \in DOMAIN m : m[probe] # Empty /\ IsDigit(m[probe])

\* C23: every value of the probe-to-id mapping is a non-empty string of
\* digits, while the platform pass runs and in what it returns.
C23_IdsAreDigits == DigitValues(pp.platform_data) /\ DigitValues(platform_data)

\* The returned mapping holds an id taken from after a colon and one that
\* is a whole all-digit cell.
C23_Witness ==
  /\ Done
  /\ hist.psec
  /\ \E probe \in DOMAIN platform_data : platform_data[probe] = << "12" >>
  /\ \E probe \in DOMAIN platform_data : platform_data[probe] = << "7157" >>

\* A line that is none of the three platform tags.
NoPlatformTag(line) ==
  /\ ~StartsWith(line, TagPlatform)
  /\ ~StartsWith(line, TagPlatformBegin)
  /\ ~StartsWith(line, TagPlatformEnd)

\* C26: the line after a `!platform_table_begin` of a platform section is
\* taken as the header and gives no entry; a line gives an entry only when
\* read after that header and before the next `!platform_table_end`, and
\* never when it begins with `!` or `#`.
C26_EntriesOnlyFromTableBody ==
  [][LineRead =>
       LET line == Strip(hist'.last)
       IN  /\ (hist.ptab # "body") => pp'.platform_data = pp.platform_data
           /\ (StartsWithBang(line) \/ StartsWithHash(line)) =>
                pp'.platform_data = pp.platform_data
           /\ (hist.ptab = "begun" /\ pp.current_platform # Empty /\ NoPlatformTag(line)) =>
                /\ pp.in_table_header /\ ~pp'.in_table_header
                /\ pp'.header_indices = HeaderIndices(pp.header_indices, Columns(line))]_vars

\* A row of the table body has given an entry, and the row read after the
\* `!platform_table_end` has given none.
C26_Witness ==
  /\ pc = "parsing"
  /\ hist.psec /\ hist.ptab = "none"
  /\ hist.last = LineRowLower
  /\ DOMAIN pp.platform_data = {<< "P1" >>}
  /\ << "gene" >> \in DOMAIN pp.header_indices

\* The section being read has an identifier and a title line whose field
\* has the substring.
TitleHasMatched == obs.sec_id # Empty /\ obs.sec_field

\* C24: the expression mapping is written only when a `!sample_table_end`
\* line is read, and then if and only if the title of the current sample has
\* matched; what is written under the identifier is the probe-to-value map
\* accumulated for it up to that line.
C24_CommitOnlyAtTableEnd ==
  [][LineRead =>
       sp'.matching_samples =
         IF StartsWith(Strip(hist'.last), TagSampleEnd) /\ TitleHasMatched
           THEN DictSet(sp.matching_samples, obs.sec_id, SampleDataOf(sp, obs.sec_id))
           ELSE sp.matching_samples]_vars

\* A `!sample_table_end` has written the rows of a matched sample, after one
\* of a sample whose title had not matched wrote nothing.
C24_Witness ==
  /\ pc = "parsing"
  /\ hist.last = LineSampleEnd
  /\ TitleHasMatched
  /\ obs.titleMiss # {} /\ obs.sec_id \notin obs.titleMiss
  /\ Len(sp.matching_samples) = 1
  /\ sp.matching_samples[1][1] = obs.sec_id
  /\ sp.matching_samples[1][2] # EmptyMap
  /\ sp.matching_samples[1][2] = SampleDataOf(sp, obs.sec_id)

\* C25: the characteristics lists hold the characteristics lines read
\* after a matching title line of their section and no other, in file order,
\* while the pass runs and in what it returns.
C25_CharacteristicsAfterMatchInOrder ==
  /\ pc = "parsing" => sp.sample_characteristics = hist.chars
  /\ Done => sample_characteristics = hist.chars

\* Two characteristics lines were recorded in their order, one read before
\* the title line was not.
C25_Witness ==
  /\ Done
  /\ DOMAIN sample_characteristics = {<< "G1" >>}
  /\ sample_characteristics[<< "G1" >>] = << FieldAfterEq(LineCharTissue), FieldAfterEq(LineCharFree) >>
  /\ obs.titleHit = {<< "G1" >>}
  /\ hist.charSkipped

\* C27: the title-matched state is set only by a `!Sample_title` line with
\* the substring and cleared only by a `^SAMPLE` line; a `^SAMPLE` line
\* clears it and the in-table state; a row is recorded only once, since the
\* last `^SAMPLE` line, a title has matched and a `!sample_table_begin` has
\* been read.
C27_SampleLineResetsSection ==
  [][LineRead =>
       LET line == Strip(hist'.last)
       IN  /\ (sp.current_sample_title = Empty /\ sp'.current_sample_title # Empty) =>
                /\ StartsWith(line, TagTitle)
                /\ OccursIgnoringCase(sample_substring, TextAfterEq(line))
           /\ (sp.current_sample_title # Empty /\ sp'.current_sample_title = Empty) =>
                StartsWith(line, TagSample)
           /\ StartsWith(line, TagSample) =>
                sp'.current_sample_title = Empty /\ ~sp'.in_sample_table
           /\ (sp'.sample_data # sp.sample_data) =>
                TitleHasMatched /\ hist.begun]_vars

\* A row read in a second section, after its title has matched and before
\* its `!sample_table_begin`, is not recorded; the first section was left
\* inside its table.
C27_Witness ==
  /\ pc = "parsing"
  /\ hist.last = LineRow2
  /\ obs.sec_id = << "G2" >> /\ obs.sec_field
  /\ ~hist.begun
  /\ sp.current_sample_title # Empty /\ ~sp.in_sample_table
  /\ DOMAIN sp.sample_data = {<< "G1" >>}
  /\ DOMAIN sp.sample_data[<< "G1" >>] = {<< "P1" >>}
  /\ sp.matching_samples = << >>

\* C30 as written: in what the sample pass returns, every identifier with
\* characteristics is a key of the expression mapping.
C30_CharacteristicsKeysAreColumns ==
  Done => DOMAIN sample_characteristics \subseteq Keys(expression_data)

\* C30: in what the sample pass returns, an identifier with characteristics
\* is a key of the expression mapping if and only if a `!sample_table_end`
\* was read in one of its sections after the title had matched.
C30_CharacteristicsKeysAreClosedColumns ==
  Done =>
    \A id \in DOMAIN sample_characteristics :
      id \in Keys(expression_data) <=> id \in hist.expectKeys

\* One sample has characteristics and a column, another has characteristics
\* and, its section having no `!sample_table_end`, no column.
C30_Witness ==
  /\ Done
  /\ DOMAIN sample_characteristics = {<< "G1" >>, << "G2" >>}
  /\ Cardinality(Keys(expression_data)) = 1
  /\ hist.expectKeys = Keys(expression_data)

\* C28: the map committed at a `!sample_table_end` holds only rows read in
\* the table being closed, with the values they have there.
C28_CommitHoldsRowsOfClosedTable ==
  [][(LineRead /\ StartsWith(Strip(hist'.last), TagSampleEnd) /\ TitleHasMatched) =>
       LET committed == DictGet(sp'.matching_samples, obs.sec_id)
       IN  \A probe \in DOMAIN committed :
             /\ probe \in DOMAIN hist.tableRows
             /\ committed[probe] = hist.tableRows[probe]]_vars

\* The table being closed held the row of P2 alone, and the map committed
\* for the sample holds P1, read in an earlier table, as well.
C28_EarlierRowsCommitted ==
  /\ pc = "parsing"
  /\ hist.last = LineSampleEnd
  /\ TitleHasMatched
  /\ DOMAIN hist.tableRows = {<< "P2" >>}
  /\ Len(sp.matching_samples) = 1
  /\ sp.matching_samples[1][1] = obs.sec_id
  /\ DOMAIN sp.matching_samples[1][2] = {<< "P1" >>, << "P2" >>}

\* The labels in the mapping once the first n lines of a list are parsed.
LabelsAfter(characteristics_list, n) ==
  DOMAIN CharacteristicsLoop([parsed_chars |-> EmptyMap, class_chars |-> << >>],
                             SubSeq(characteristics_list, 1, n)).parsed_chars

\* The label `characteristic_<n>` for a mapping of n entries.
GeneratedLabel(n) == << "characteristic", "_", NumTok(n) >>

\* C29: for every list of characteristic lines a sample has, the label
\* generated for a line without a colon is none of the labels the mapping
\* holds when the line is parsed.
C29_GeneratedLabelIsNew ==
  \A id \in DOMAIN sp.sample_characteristics :
    LET list == sp.sample_characteristics[id]
    IN  \A i \in 1..Len(list) :
          ~Contains(list[i], << ":" >>) =>
            GeneratedLabel(Cardinality(LabelsAfter(list, i - 1)))
              \notin LabelsAfter(list, i - 1)

\* The table sent for `Characteristic 1: liver` followed by `free`: the
\* generated label has taken the place of the label of the first line.
C29_LabelOverwritten ==
  /\ Done
  /\ sent.k = "table"
  /\ DOMAIN sample_characteristics = {<< "G1" >>}
  /\ sample_characteristics[<< "G1" >>]
       = << << "Characteristic", " ", "1", ":", " ", "liver" >>, << "free" >> >>
  /\ sent.table.attributes[1]
       = [label \in {<< "characteristic", "_", "1" >>, << "class" >>} |->
            IF label = << "class" >> THEN << "liver" >> ELSE << "free" >>]

====
